---- MODULE Spec2Model ----
(***************************************************************************)
(* nvm-manager: the package ledger (list-all writes it, install-lts reads  *)
(* it), the install-lts reconciliation loop, the cleanup loop, the         *)
(* fix-failed workflow and the migrate install loop.                       *)
(*                                                                         *)
(* Text is a sequence of one-character strings, so that split, trim, join  *)
(* and the comparisons of the source are computed and not assumed.         *)
(***************************************************************************)
EXTENDS Integers, Sequences, FiniteSets, TLC

\* ------------------------------------------------------------------ bounds
NumVersions == 2
MaxEntries == 2
MaxPkgsPerEntry == 2

\* ------------------------------------------------------------- value sets
\* null, as returned by the package lookups
Null == "null"
\* null, as returned by getLatestLtsVersion
NoVersion == 0
Versions == 1..NumVersions
\* the versions a global package can be installed at or published at
PkgVersions == {"1.0.0", "2.0.0"}

npm == <<"n", "p", "m">>
np == <<"n", "p">>
pa == <<"a">>
pab == <<"a", "b">>
\* a scoped package name
ps == <<"@", "s", "/", "a">>
Names == {npm, np, pa}

\* -------------------------------------------------------- text primitives
Range(s) == {s[i] : i \in 1..Len(s)}

WhiteSpace == {" ", "\n", "\t", "\r"}

\* UTF-16 code unit of the characters that occur in package names
Code(c) ==
  CASE c = "-" -> 45 [] c = "/" -> 47 [] c = "@" -> 64
    [] c = "a" -> 97 [] c = "b" -> 98 [] c = "m" -> 109
    [] c = "n" -> 110 [] c = "p" -> 112 [] c = "s" -> 115
    [] OTHER -> 0

\* String.prototype.split(c) for a one-character separator: the pieces
\* between consecutive occurrences of c
Split(s, c) ==
  LET seps == {i \in 1..Len(s) : s[i] = c}
      n == Cardinality(seps)
      SepAt(k) == IF k = 0 THEN 0
                  ELSE IF k = n + 1 THEN Len(s) + 1
                  ELSE CHOOSE p \in seps :
                         Cardinality({q \in seps : q < p}) = k - 1
  IN [k \in 1..(n + 1) |-> SubSeq(s, SepAt(k - 1) + 1, SepAt(k) - 1)]

RECURSIVE TrimLeft(_)
TrimLeft(s) ==
  IF s # <<>> /\ Head(s) \in WhiteSpace THEN TrimLeft(Tail(s)) ELSE s

RECURSIVE TrimRight(_)
TrimRight(s) ==
  IF s # <<>> /\ s[Len(s)] \in WhiteSpace
  THEN TrimRight(SubSeq(s, 1, Len(s) - 1)) ELSE s

\* String.prototype.trim
Trim(s) == TrimRight(TrimLeft(s))

\* String.prototype.startsWith
StartsWith(s, p) == Len(s) >= Len(p) /\ SubSeq(s, 1, Len(p)) = p

\* String.prototype.includes
Includes(s, p) ==
  \E i \in 1..(Len(s) - Len(p) + 1) : SubSeq(s, i, i + Len(p) - 1) = p

RECURSIVE Join(_, _)
\* Array.prototype.join(sep)
Join(list, sep) ==
  IF list = <<>> THEN <<>>
  ELSE IF Len(list) = 1 THEN list[1]
  ELSE list[1] \o sep \o Join(Tail(list), sep)

RECURSIVE StrLess(_, _)
\* a < b in the default sort order of Array.prototype.sort (code units)
StrLess(a, b) ==
  IF b = <<>> THEN FALSE
  ELSE IF a = <<>> THEN TRUE
  ELSE IF Code(Head(a)) # Code(Head(b)) THEN Code(Head(a)) < Code(Head(b))
  ELSE StrLess(Tail(a), Tail(b))

RECURSIVE InsertSorted(_, _)
InsertSorted(x, s) ==
  IF s = <<>> THEN <<x>>
  ELSE IF StrLess(x, Head(s)) THEN <<x>> \o s
  ELSE <<Head(s)>> \o InsertSorted(x, Tail(s))

JsSortUnsorted(s) == s

RECURSIVE JsSort(_)
\* Array.prototype.sort() with the default comparator
JsSort(s) ==
  IF s = <<>> THEN <<>> ELSE InsertSorted(Head(s), JsSort(Tail(s)))

\* Set.prototype.add on an insertion-ordered Set
SetAdd(s, x) == IF x \in Range(s) THEN s ELSE Append(s, x)

RECURSIVE SetAddAll(_, _)
SetAddAll(s, xs) ==
  IF xs = <<>> THEN s ELSE SetAddAll(SetAdd(s, Head(xs)), Tail(xs))

\* ------------------------------------------------------------- the ledger
HeaderPrefix == <<"N","o","d","e"," ","V","e","r","s","i","o","n",":">>
NoPackagesInner ==
  <<"N","o"," ","g","l","o","b","a","l"," ","p","a","c","k","a","g","e","s",
    " ","i","n","s","t","a","l","l","e","d">>
NoPackagesMarker == <<"(">> \o NoPackagesInner \o <<")">>

Digit(n) ==
  CASE n = 0 -> "0" [] n = 1 -> "1" [] n = 2 -> "2" [] n = 3 -> "3"
    [] n = 4 -> "4" [] n = 5 -> "5" [] n = 6 -> "6" [] n = 7 -> "7"
    [] n = 8 -> "8" [] OTHER -> "9"

\* the version string of version number n: "n.0.0"
VersionText(n) == <<Digit(n), ".", "0", ".", "0">>

\* the text list-all appends for one processed version
EntryText(version, packages) ==
  HeaderPrefix \o <<" ">> \o VersionText(version) \o <<"\n">>
  \o (IF Len(packages) = 0 THEN NoPackagesMarker
      ELSE Join(packages, <<",", " ">>))
  \o <<"\n", "\n">>

\* filter(pkg => pkg && pkg !== 'npm')
IsPackageToken(pkg) == pkg # <<>> /\ pkg # npm

RECURSIVE FilterPackages(_)
FilterPackages(toks) ==
  IF toks = <<>> THEN <<>>
  ELSE (IF IsPackageToken(Head(toks)) THEN <<Head(toks)>> ELSE <<>>)
       \o FilterPackages(Tail(toks))

\* line.split(',').map(pkg => pkg.trim()).filter(...)
LinePackages(line) ==
  LET toks == Split(line, ",")
      trimmed == [i \in 1..Len(toks) |-> Trim(toks[i])]
  IN FilterPackages(trimmed)

SkipLine(line) ==
  \/ Trim(line) = <<>>
  \/ StartsWith(line, HeaderPrefix)
  \/ Includes(line, NoPackagesInner)

RECURSIVE CollectPackages(_, _)
CollectPackages(lines, packages) ==
  IF lines = <<>> THEN packages
  ELSE IF SkipLine(Head(lines)) THEN CollectPackages(Tail(lines), packages)
  ELSE CollectPackages(Tail(lines),
                       SetAddAll(packages, LinePackages(Head(lines))))

\* parsePackageList applied to the ledger file
parsePackageList(file) ==
  IF ~file.exists THEN <<>>
  ELSE JsSort(CollectPackages(Split(file.contents, "\n"), <<>>))

\* fs.writeFileSync(OUTPUT_FILE, '')
ClearedFile == [exists |-> TRUE, contents |-> <<>>]

\* fs.appendFileSync(OUTPUT_FILE, text)
AppendFile(file, text) ==
  [exists |-> TRUE,
   contents |-> (IF file.exists THEN file.contents ELSE <<>>) \o text]

\* ------------------------------------------------------------------ state
VARIABLES
  cmd,                \* the command this run executes
  pc,                 \* the position of the command
  ledger,             \* nvm-global-packages.txt
  nvmList,            \* the versions nvm lists as installed
  dirs,               \* the version directories under the nvm directory
  active,             \* the version in use
  globals,            \* per version, the installed version of each package
  registry,           \* the latest published version of each package
  availLts,           \* what "nvm list available" yields as latest stable
  entries,            \* the (version, packages) pairs list-all writes
  world0,             \* the system as the command found it
  argv,               \* the command line flags of migrate and list-all
  listing,            \* isVersionStillListed: the output of "nvm list"
  query,              \* isVersionStillListed: the version asked about
  allPackages,
  latestLts,
  installedVersions,
  alreadyHasLatest,
  missingPackages,
  packagesToInstall,
  idx,                \* the loop position (1-based)
  skipAll,
  installAll,
  toUninstall,
  uninstallAll,
  uninstallSuccess,
  vstate,             \* fix-failed: where each version is in its workflow
  targetVersion,
  fromVersion,
  packageMap,         \* migrate: <<package, version>> in insertion order
  trace               \* what the run has done so far, in order

worldVars == <<ledger, nvmList, dirs, active, globals, registry, availLts>>
inputVars == <<cmd, entries, world0, argv, listing, query>>
localVars == <<allPackages, latestLts, installedVersions, alreadyHasLatest,
               missingPackages, packagesToInstall, idx, skipAll, installAll,
               toUninstall, uninstallAll, uninstallSuccess, vstate,
               targetVersion, fromVersion, packageMap>>
cleanupVars == <<toUninstall, uninstallAll>>
fixVars == <<uninstallSuccess, vstate>>
migrateVars == <<targetVersion, fromVersion, packageMap>>
vars == <<pc, worldVars, inputVars, localVars, trace>>

\* --------------------------------------------------------------- helpers
\* one entry of the run's history
Ev(kind, pkg, ver, ok, ans, at) ==
  [kind |-> kind, pkg |-> pkg, ver |-> ver, ok |-> ok, ans |-> ans, at |-> at]

NoPkg == <<>>

Min(S) == CHOOSE x \in S : \A y \in S : x <= y

RECURSIVE VersionList(_)
\* the versions of a set in listing order
VersionList(S) ==
  IF S = {} THEN <<>> ELSE <<Min(S)>> \o VersionList(S \ {Min(S)})

AbsentNever(version) == FALSE

\* if (!latestLts), if (!targetVersion)
Absent(version) == version = NoVersion

SeqIncludes(s, x) == \E i \in 1..Len(s) : s[i] = x

WorldPkgs == {pa, pab, ps}

NoGlobals == [p \in WorldPkgs |-> Null]

\* getInstalledNodeVersions: the listed versions, or [] when the listing fails
getInstalledNodeVersions(ok) == IF ok THEN VersionList(nvmList) ELSE <<>>

\* getLatestPackageVersion: npm view <pkg> version, null on failure
getLatestPackageVersion(pkg) ==
  IF pkg \in WorldPkgs THEN registry[pkg] ELSE Null

\* getInstalledPackageVersion: npm ls -g <pkg> under the version in use
getInstalledPackageVersion(pkg) ==
  IF pkg \in WorldPkgs /\ active \in Versions THEN globals[active][pkg]
  ELSE Null

\* the outcomes installGlobalPackage(pkg) can have
InstallOutcomes(pkg) ==
  IF getLatestPackageVersion(pkg) = Null THEN {FALSE} ELSE {TRUE, FALSE}

\* the global packages after installGlobalPackage(pkg) returned ok
GlobalsAfterInstall(pkg, ok) ==
  IF ok /\ active \in Versions /\ pkg \in WorldPkgs
  THEN [globals EXCEPT ![active][pkg] = registry[pkg]]
  ELSE globals

RECURSIVE WriteLedger(_)
\* the ledger content list-all leaves for the processed entries
WriteLedger(es) ==
  IF es = <<>> THEN <<>>
  ELSE EntryText(es[1].version, es[1].packages) \o WriteLedger(Tail(es))

\* ------------------------------------------------- the ledger round trip
InjectiveSeqs(S, n) ==
  {s \in UNION {[1..k -> S] : k \in 0..n} :
     \A i, j \in 1..Len(s) : i # j => s[i] # s[j]}

EntrySet ==
  [version : Versions, packages : InjectiveSeqs(Names, MaxPkgsPerEntry)]

\* the entries of one run of list-all, one per version
EntrySeqs ==
  {es \in UNION {[1..k -> EntrySet] : k \in 0..MaxEntries} :
     \A i, j \in 1..Len(es) : i # j => es[i].version # es[j].version}

\* what a command can change, other than the ledger
System ==
  [nvmList |-> nvmList, dirs |-> dirs, active |-> active, globals |-> globals]

IdleLocals ==
  /\ world0 = System
  /\ allPackages = <<>>
  /\ latestLts = NoVersion
  /\ installedVersions = <<>>
  /\ alreadyHasLatest = FALSE
  /\ missingPackages = <<>>
  /\ packagesToInstall = <<>>
  /\ idx = 1
  /\ skipAll = FALSE
  /\ installAll = FALSE
  /\ toUninstall = <<>>
  /\ uninstallAll = FALSE
  /\ uninstallSuccess = FALSE
  /\ vstate = [v \in Versions |-> "installed"]
  /\ targetVersion = NoVersion
  /\ fromVersion = NoVersion
  /\ packageMap = <<>>
  /\ trace = <<>>

\* no listing text is under examination
NoListing == listing = <<>> /\ query = <<>>

NoFlags ==
  [to |-> NoVersion, from |-> NoVersion, yes |-> FALSE, versions |-> <<>>]

InitLedger ==
  /\ cmd = "ledger"
  /\ argv = NoFlags
  /\ NoListing
  /\ pc = "clear"
  /\ entries \in EntrySeqs
  /\ ledger \in {[exists |-> FALSE, contents |-> <<>>],
                 [exists |-> TRUE, contents |-> EntryText(1, <<pa>>)]}
  /\ nvmList = Versions
  /\ dirs = {}
  /\ active = 1
  /\ globals = [v \in Versions |-> NoGlobals]
  /\ registry = NoGlobals
  /\ availLts = NoVersion
  /\ IdleLocals

\* list-all: clear the output file before the loop
LedgerClear ==
  /\ cmd = "ledger" /\ pc = "clear"
  /\ ledger' = ClearedFile
  /\ pc' = "append"
  /\ UNCHANGED <<nvmList, dirs, active, globals, registry, availLts>>
  /\ UNCHANGED <<inputVars, localVars, trace>>

\* list-all: append the header and the package line of one version
LedgerAppend ==
  /\ cmd = "ledger" /\ pc = "append"
  /\ idx <= Len(entries)
  /\ ledger' = AppendFile(ledger,
                          EntryText(entries[idx].version, entries[idx].packages))
  /\ idx' = idx + 1
  /\ UNCHANGED <<pc, nvmList, dirs, active, globals, registry, availLts>>
  /\ UNCHANGED <<inputVars, allPackages, latestLts, installedVersions,
                 alreadyHasLatest, missingPackages, packagesToInstall,
                 skipAll, installAll, trace, cleanupVars, fixVars,
                 migrateVars>>

\* install-lts: read the ledger back
LedgerParse ==
  /\ cmd = "ledger" /\ pc = "append"
  /\ idx > Len(entries)
  /\ allPackages' = parsePackageList(ledger)
  /\ pc' = "parsed"
  /\ UNCHANGED <<worldVars, inputVars, latestLts, installedVersions,
                 alreadyHasLatest, missingPackages, packagesToInstall, idx,
                 skipAll, installAll, trace, cleanupVars, fixVars,
                 migrateVars>>

NextLedger == LedgerClear \/ LedgerAppend \/ LedgerParse

SpecLedger == InitLedger /\ [][NextLedger]_vars

\* the package names of the entries, the bootstrap package left out
EntryNames(es) ==
  UNION {Range(es[i].packages) : i \in 1..Len(es)} \ {npm}

IsSorted(s) == \A i \in 1..(Len(s) - 1) : StrLess(s[i], s[i + 1])

IndexPerms(n) ==
  {f \in [1..n -> 1..n] : \A i, j \in 1..n : i # j => f[i] # f[j]}

\* C1: reading back a written ledger gives the sorted, duplicate-free union
\* of the package names of the entries without npm, and the same list for
\* every order of the entries.
C1_LedgerRoundTrip ==
  pc = "parsed" =>
    /\ IsSorted(allPackages)
    /\ Range(allPackages) = EntryNames(entries)
    /\ ledger.contents = WriteLedger(entries)
    /\ \A f \in IndexPerms(Len(entries)) :
         parsePackageList(
           [exists |-> TRUE,
            contents |-> WriteLedger([i \in 1..Len(entries) |-> entries[f[i]]])])
         = allPackages

\* a ledger of two entries that share a package and hold npm was read back
C1_Witness ==
  /\ pc = "parsed"
  /\ Len(entries) = 2
  /\ npm \in Range(entries[1].packages)
  /\ Range(entries[1].packages) \cap Range(entries[2].packages) # {}
  /\ Len(allPackages) = 2

\* ------------------------------------------------------------ install-lts
\* the ledgers install-lts is run against: no file, a file that names only
\* npm, and the file of versions 1 -> [ab, npm], 2 -> [ab, a]
InstallLedgers ==
  {[exists |-> FALSE, contents |-> <<>>],
   [exists |-> TRUE,
    contents |-> WriteLedger(<<[version |-> 1, packages |-> <<npm>>],
                               [version |-> 2, packages |-> <<>>]>>)],
   [exists |-> TRUE,
    contents |-> WriteLedger(<<[version |-> 1, packages |-> <<pab, npm>>],
                               [version |-> 2, packages |-> <<pab, pa>>]>>)]}

\* the worlds a command starts in: some version is in use, a version that
\* is not installed has no global packages
InitWorld ==
  /\ nvmList \in SUBSET Versions \ {{}}
  /\ active \in nvmList
  /\ dirs = {<<"v", v>> : v \in nvmList}
  /\ availLts \in Versions \cup {NoVersion}
  /\ registry \in [WorldPkgs -> {Null, "2.0.0"}]
  /\ registry[ps] = Null
  /\ globals \in [Versions ->
                    {g \in [WorldPkgs -> PkgVersions \cup {Null}] :
                       g[ps] = Null}]
  /\ \A v \in Versions :
       v \notin (nvmList \cap {active, availLts}) => globals[v] = NoGlobals

InitInstall ==
  /\ cmd = "install-lts"
  /\ pc = "start"
  /\ entries = <<>>
  /\ argv = NoFlags
  /\ NoListing
  /\ ledger \in InstallLedgers
  /\ InitWorld
  /\ IdleLocals

Log(e) == trace' = Append(trace, e)
Log2(e, f) == trace' = trace \o <<e, f>>

\* installedVer !== latestVer
IsMissing(pkg) ==
  getInstalledPackageVersion(pkg) # getLatestPackageVersion(pkg)

RECURSIVE MissingOf(_)
\* the pre-check loop over allPackages
MissingOf(pkgs) ==
  IF pkgs = <<>> THEN <<>>
  ELSE (IF IsMissing(Head(pkgs)) THEN <<Head(pkgs)>> ELSE <<>>)
       \o MissingOf(Tail(pkgs))

UpToDateExitNegated(has, missing) == ~has /\ Len(missing) = 0

\* alreadyHasLatest && missingPackages.length === 0
UpToDateExit(has, missing) == has /\ Len(missing) = 0

InstallLoopModeAskOnly(skip, all) == IF skip THEN "skip" ELSE "ask"

\* the head of the package loop: skipAll, then installAll, then the prompt
InstallLoopMode(skip, all) ==
  IF skip THEN "skip" ELSE IF all THEN "install" ELSE "ask"

InstallChoices == {"y", "n", "y-all", "n-all"}

NoPackagesListedNever(packages) == FALSE

\* if (allPackages.length === 0)
NoPackagesListed(packages) == Len(packages) = 0

\* const allPackages = parsePackageList(); if (allPackages.length === 0) ...
InstallParse ==
  /\ cmd = "install-lts" /\ pc = "start"
  /\ allPackages' = parsePackageList(ledger)
  /\ IF NoPackagesListed(allPackages')
     THEN /\ pc' = "done"
          /\ Log(Ev("no-packages", NoPkg, NoVersion, TRUE, "", 0))
     ELSE /\ pc' = "getLatest"
          /\ UNCHANGED trace
  /\ UNCHANGED <<worldVars, inputVars, latestLts, installedVersions,
                 alreadyHasLatest, missingPackages, packagesToInstall, idx,
                 skipAll, installAll, cleanupVars, fixVars, migrateVars>>

\* const latestLts = await getLatestLtsVersion(); if (!latestLts) return
InstallGetLatest ==
  /\ cmd = "install-lts" /\ pc = "getLatest"
  /\ latestLts' = availLts
  /\ IF Absent(latestLts')
     THEN /\ pc' = "done"
          /\ Log(Ev("no-latest", NoPkg, NoVersion, FALSE, "", 0))
     ELSE /\ pc' = "listVersions"
          /\ UNCHANGED trace
  /\ UNCHANGED <<worldVars, inputVars, allPackages, installedVersions,
                 alreadyHasLatest, missingPackages, packagesToInstall, idx,
                 skipAll, installAll, cleanupVars, fixVars, migrateVars>>

\* installedVersions, alreadyHasLatest
InstallListVersions ==
  /\ cmd = "install-lts" /\ pc = "listVersions"
  /\ \E ok \in BOOLEAN :
       installedVersions' = getInstalledNodeVersions(ok)
  /\ alreadyHasLatest' = SeqIncludes(installedVersions', latestLts)
  /\ pc' = "precheck"
  /\ UNCHANGED <<worldVars, inputVars, allPackages, latestLts,
                 missingPackages, packagesToInstall, idx, skipAll,
                 installAll, trace, cleanupVars, fixVars, migrateVars>>

\* the pre-check loop and the "up to date" exit
InstallPrecheck ==
  /\ cmd = "install-lts" /\ pc = "precheck"
  /\ missingPackages' = MissingOf(allPackages)
  /\ IF UpToDateExit(alreadyHasLatest, missingPackages')
     THEN /\ pc' = "done"
          /\ Log(Ev("up-to-date", NoPkg, latestLts, TRUE, "", 0))
     ELSE /\ pc' = "confirm"
          /\ UNCHANGED trace
  /\ UNCHANGED <<worldVars, inputVars, allPackages, latestLts,
                 installedVersions, alreadyHasLatest, packagesToInstall,
                 idx, skipAll, installAll, cleanupVars, fixVars, migrateVars>>

AfterConfirmAlways(shouldProceed, has) ==
  IF ~has THEN "installNode" ELSE "switch"

\* if (!shouldProceed) return; if (!alreadyHasLatest) installNodeVersion
AfterConfirm(shouldProceed, has) ==
  IF ~shouldProceed THEN "done"
  ELSE IF ~has THEN "installNode"
  ELSE "switch"

\* const shouldProceed = await confirmAction(...)
InstallConfirm ==
  /\ cmd = "install-lts" /\ pc = "confirm"
  /\ \E shouldProceed \in BOOLEAN :
       /\ Log(Ev("confirm", NoPkg, latestLts, shouldProceed, "", 0))
       /\ pc' = AfterConfirm(shouldProceed, alreadyHasLatest)
  /\ UNCHANGED <<worldVars, inputVars, localVars>>

\* const installed = await installNodeVersion(latestLts)
InstallNode ==
  /\ cmd = "install-lts" /\ pc = "installNode"
  /\ \E installed \in BOOLEAN :
       /\ Log(Ev("installNode", NoPkg, latestLts, installed, "", 0))
       /\ nvmList' = IF installed THEN nvmList \cup {latestLts} ELSE nvmList
       /\ dirs' = IF installed THEN dirs \cup {<<"v", latestLts>>} ELSE dirs
       /\ pc' = IF installed THEN "switch" ELSE "done"
  /\ UNCHANGED <<ledger, active, globals, registry, availLts>>
  /\ UNCHANGED <<inputVars, localVars>>

\* the outcomes switchNodeVersion(version) can have
SwitchOutcomes(version) ==
  IF version \in nvmList THEN {TRUE, FALSE} ELSE {FALSE}

\* const switched = await switchNodeVersion(latestLts); packagesToInstall
InstallSwitch ==
  /\ cmd = "install-lts" /\ pc = "switch"
  /\ \E switched \in SwitchOutcomes(latestLts) :
       /\ Log(Ev("switch", NoPkg, latestLts, switched, "", 0))
       /\ active' = IF switched THEN latestLts ELSE active
       /\ packagesToInstall' =
            IF ~switched THEN packagesToInstall
            ELSE IF alreadyHasLatest THEN missingPackages ELSE allPackages
       /\ pc' = IF switched /\ Len(packagesToInstall') > 0 THEN "loop"
                ELSE "done"
  /\ UNCHANGED <<ledger, nvmList, dirs, globals, registry, availLts>>
  /\ UNCHANGED <<inputVars, allPackages, latestLts, installedVersions,
                 alreadyHasLatest, missingPackages, idx, skipAll, installAll,
                 cleanupVars, fixVars, migrateVars>>

\* one iteration of for (const pkg of packagesToInstall)
InstallLoopStep ==
  /\ cmd = "install-lts" /\ pc = "loop"
  /\ idx <= Len(packagesToInstall)
  /\ idx' = idx + 1
  /\ LET pkg == packagesToInstall[idx]
         mode == InstallLoopMode(skipAll, installAll)
         latest == getLatestPackageVersion(pkg)
         latestVer == IF latest = Null THEN "unknown" ELSE latest
         installedVer == getInstalledPackageVersion(pkg)
     IN CASE mode = "skip" ->
               /\ Log(Ev("skipped", pkg, active, TRUE, "", idx))
               /\ UNCHANGED <<globals, skipAll, installAll>>
          [] mode = "install" ->
               /\ \E success \in InstallOutcomes(pkg) :
                    /\ Log(Ev("install", pkg, active, success, "", idx))
                    /\ globals' = GlobalsAfterInstall(pkg, success)
               /\ UNCHANGED <<skipAll, installAll>>
          [] mode = "ask" /\ installedVer = latestVer ->
               /\ Log(Ev("already-latest", pkg, active, TRUE, "", idx))
               /\ UNCHANGED <<globals, skipAll, installAll>>
          [] OTHER ->
               \E action \in InstallChoices :
                 LET prompt == Ev("prompt", pkg, active, TRUE, action, idx)
                 IN IF action \in {"y", "y-all"}
                    THEN /\ \E success \in InstallOutcomes(pkg) :
                              /\ Log2(prompt,
                                      Ev("install", pkg, active, success,
                                         "", idx))
                              /\ globals' = GlobalsAfterInstall(pkg, success)
                         /\ installAll' = (installAll \/ action = "y-all")
                         /\ UNCHANGED skipAll
                    ELSE /\ Log(prompt)
                         /\ skipAll' = (skipAll \/ action = "n-all")
                         /\ UNCHANGED <<globals, installAll>>
  /\ UNCHANGED <<pc, ledger, nvmList, dirs, active, registry, availLts>>
  /\ UNCHANGED <<inputVars, allPackages, latestLts, installedVersions,
                 alreadyHasLatest, missingPackages, packagesToInstall,
                 cleanupVars, fixVars, migrateVars>>

\* console.log('Installation complete.')
InstallComplete ==
  /\ cmd = "install-lts" /\ pc = "loop"
  /\ idx > Len(packagesToInstall)
  /\ Log(Ev("complete", NoPkg, latestLts, TRUE, "", 0))
  /\ pc' = "done"
  /\ UNCHANGED <<worldVars, inputVars, localVars>>

NextInstall ==
  \/ InstallParse \/ InstallGetLatest \/ InstallListVersions
  \/ InstallPrecheck \/ InstallConfirm \/ InstallNode \/ InstallSwitch
  \/ InstallLoopStep \/ InstallComplete

SpecInstall == InitInstall /\ [][NextInstall]_vars

\* ---------------------------------------------- version lifecycle (nvm)
\* what "nvm uninstall <version>" can do: exit code, whether the version
\* leaves the listing, whether its directories are removed
UninstallOutcomes ==
  {[ok |-> TRUE, unlist |-> TRUE, rmdir |-> TRUE],
   [ok |-> TRUE, unlist |-> FALSE, rmdir |-> FALSE],
   [ok |-> TRUE, unlist |-> FALSE, rmdir |-> TRUE],
   [ok |-> FALSE, unlist |-> FALSE, rmdir |-> FALSE],
   [ok |-> FALSE, unlist |-> TRUE, rmdir |-> TRUE]}

DirsOf(version) == {<<"v", version>>, <<"", version>>}

\* the system after uninstallNodeVersion(version) had outcome o
UninstallEffect(version, o) ==
  /\ nvmList' = IF o.unlist THEN nvmList \ {version} ELSE nvmList
  /\ dirs' = IF o.rmdir THEN dirs \ DirsOf(version) ELSE dirs
  /\ active' = IF o.rmdir /\ active = version THEN NoVersion ELSE active
  /\ globals' = IF o.rmdir THEN [globals EXCEPT ![version] = NoGlobals]
                ELSE globals

\* the values isVersionStillListed(version) can return: the listing's
\* answer, or false when the listing command fails
StillListedOutcomes(version) == {version \in nvmList, FALSE}

\* a latest stable version that is not installed yet
NewVersion == NumVersions + 1

\* the versions, with no global packages anywhere
InitVersionsOnly ==
  /\ nvmList \in SUBSET Versions \ {{}}
  /\ active \in nvmList
  /\ availLts \in Versions \cup {NoVersion, NewVersion}
  /\ registry = NoGlobals
  /\ globals = [v \in Versions |-> NoGlobals]
  /\ ledger = [exists |-> FALSE, contents |-> <<>>]
  /\ entries = <<>>
  /\ argv = NoFlags
  /\ NoListing

\* ---------------------------------------------------------------- cleanup
InitCleanup ==
  /\ cmd = "cleanup"
  /\ pc = "start"
  /\ InitVersionsOnly
  /\ dirs = {<<"v", v>> : v \in nvmList}
  /\ IdleLocals

CleanupLoopModeAskOnly(skip, all) == IF skip THEN "skip" ELSE "ask"

\* the head of the version loop: skipAll, then uninstallAll, then the prompt
CleanupLoopMode(skip, all) ==
  IF skip THEN "skip" ELSE IF all THEN "uninstall" ELSE "ask"

CleanupChoices == {"y", "n", "y-all", "skip-all"}

StickyDropped(flag, chosen) == flag

\* uninstallAll = true; skipAll = true: set for the rest of the loop
Sticky(flag, chosen) == flag \/ chosen

WithoutFilter(list, x) == list

RECURSIVE Without(_, _)
\* installedVersions.filter(ver => ver !== latestLts)
Without(list, x) ==
  IF list = <<>> THEN <<>>
  ELSE (IF Head(list) # x THEN <<Head(list)>> ELSE <<>>)
       \o Without(Tail(list), x)

\* const latestLts = await getLatestLtsVersion(); if (!latestLts) return
CleanupGetLatest ==
  /\ cmd = "cleanup" /\ pc = "start"
  /\ latestLts' = availLts
  /\ IF Absent(latestLts')
     THEN /\ pc' = "done"
          /\ Log(Ev("no-latest", NoPkg, NoVersion, FALSE, "", 0))
     ELSE /\ pc' = "switch"
          /\ UNCHANGED trace
  /\ UNCHANGED <<worldVars, inputVars, allPackages, installedVersions,
                 alreadyHasLatest, missingPackages, packagesToInstall, idx,
                 skipAll, installAll, cleanupVars, fixVars, migrateVars>>

\* switchNodeVersion(latestLts), installedVersions, toUninstall
CleanupSwitchAndList ==
  /\ cmd = "cleanup" /\ pc = "switch"
  /\ \E switched \in SwitchOutcomes(latestLts), ok \in BOOLEAN :
       /\ active' = IF switched THEN latestLts ELSE active
       /\ installedVersions' = getInstalledNodeVersions(ok)
       /\ toUninstall' = Without(installedVersions', latestLts)
       /\ Log(Ev("switch", NoPkg, latestLts, switched, "", 0))
       /\ pc' = IF Len(toUninstall') = 0 THEN "done" ELSE "loop"
  /\ UNCHANGED <<ledger, nvmList, dirs, globals, registry, availLts>>
  /\ UNCHANGED <<inputVars, allPackages, latestLts, alreadyHasLatest,
                 missingPackages, packagesToInstall, idx, skipAll,
                 installAll, uninstallAll, fixVars, migrateVars>>

\* uninstallNodeVersion(version) and the line printed for its result
CleanupUninstall(version, o, first) ==
  /\ UninstallEffect(version, o)
  /\ trace' = trace \o first
       \o <<Ev("uninstall", NoPkg, version, o.ok, "", idx)>>
       \o (IF o.ok THEN <<Ev("reported", NoPkg, version, TRUE, "", idx)>>
           ELSE <<>>)

\* one iteration of for (const version of toUninstall)
CleanupLoopStep ==
  /\ cmd = "cleanup" /\ pc = "loop"
  /\ idx <= Len(toUninstall)
  /\ idx' = idx + 1
  /\ LET version == toUninstall[idx]
         mode == CleanupLoopMode(skipAll, uninstallAll)
     IN CASE mode = "skip" ->
               /\ Log(Ev("skipped", NoPkg, version, TRUE, "", idx))
               /\ UNCHANGED <<nvmList, dirs, active, globals, skipAll,
                              uninstallAll>>
          [] mode = "uninstall" ->
               /\ \E o \in UninstallOutcomes :
                    CleanupUninstall(version, o, <<>>)
               /\ UNCHANGED <<skipAll, uninstallAll>>
          [] OTHER ->
               \E action \in CleanupChoices :
                 LET prompt == Ev("prompt", NoPkg, version, TRUE, action, idx)
                 IN IF action \in {"y", "y-all"}
                    THEN /\ \E o \in UninstallOutcomes :
                              CleanupUninstall(version, o, <<prompt>>)
                         /\ uninstallAll' = Sticky(uninstallAll, action = "y-all")
                         /\ UNCHANGED skipAll
                    ELSE /\ Log(prompt)
                         /\ skipAll' = Sticky(skipAll, action = "skip-all")
                         /\ UNCHANGED <<nvmList, dirs, active, globals,
                                        uninstallAll>>
  /\ UNCHANGED <<pc, ledger, registry, availLts>>
  /\ UNCHANGED <<inputVars, allPackages, latestLts, installedVersions,
                 alreadyHasLatest, missingPackages, packagesToInstall,
                 installAll, toUninstall, fixVars, migrateVars>>

\* console.log('Cleanup complete. ...')
CleanupComplete ==
  /\ cmd = "cleanup" /\ pc = "loop"
  /\ idx > Len(toUninstall)
  /\ Log(Ev("complete", NoPkg, latestLts, TRUE, "", 0))
  /\ pc' = "done"
  /\ UNCHANGED <<worldVars, inputVars, localVars>>

NextCleanup ==
  CleanupGetLatest \/ CleanupSwitchAndList \/ CleanupLoopStep
  \/ CleanupComplete

SpecCleanup == InitCleanup /\ [][NextCleanup]_vars

\* ------------------------------------------------------------- fix-failed
\* per listed version: no directory, v<version>, <version>, or both
DirChoices(version) == SUBSET DirsOf(version)

InitFixFailed ==
  /\ cmd = "fix-failed"
  /\ pc = "start"
  /\ InitVersionsOnly
  /\ active = Min(nvmList)
  /\ dirs \in SUBSET (UNION {DirsOf(v) : v \in nvmList})
  /\ IdleLocals

NoPath == <<"none", NoVersion>>

PathToDeleteAltFirst(version) ==
  IF <<"", version>> \in dirs THEN <<"", version>>
  ELSE IF <<"v", version>> \in dirs THEN <<"v", version>>
  ELSE NoPath

\* versionPath if it exists, else altVersionPath if it exists, else null
PathToDelete(version) ==
  IF <<"v", version>> \in dirs THEN <<"v", version>>
  ELSE IF <<"", version>> \in dirs THEN <<"", version>>
  ELSE NoPath

FixDoneInverted(success, stillListed) == success /\ stillListed

\* uninstallSuccess && !stillListed
FixDone(success, stillListed) == success /\ ~stillListed

\* where a version stands after the uninstall attempt and the listing check
PhaseAfterCheck(success, stillListed) ==
  IF FixDone(success, stillListed) THEN "uninstalled"
  ELSE IF stillListed THEN "still-listed"
  ELSE "uninstall-failed"

PhaseAfterPromptNoCheck(shouldDelete, path, rmOk) ==
  IF ~shouldDelete THEN "skip"
  ELSE IF rmOk THEN "force-removed"
  ELSE "delete-failed"

\* where a version stands after the manual-deletion prompt
PhaseAfterPrompt(shouldDelete, path, rmOk) ==
  IF ~shouldDelete THEN "skip"
  ELSE IF path = NoPath THEN "no-folder"
  ELSE IF rmOk THEN "force-removed"
  ELSE "delete-failed"

PhaseAfterVerifyRetry(stillListed) ==
  IF stillListed THEN "still-listed" ELSE "no-longer-listed"

\* where a version stands after the check that follows the deletion
PhaseAfterVerify(stillListed) ==
  IF stillListed THEN "still-listed-warn" ELSE "no-longer-listed"

\* the position of fix-failed for a version in the given phase
FixPcOf(phase) ==
  CASE phase = "uninstall-attempted" -> "check"
    [] phase \in {"still-listed", "uninstall-failed"} -> "prompt"
    [] phase = "force-removed" -> "verify"
    [] OTHER -> "loop"

\* latestLts, the nvm directory check, installedVersions
FixStart ==
  /\ cmd = "fix-failed" /\ pc = "start"
  /\ latestLts' = availLts
  /\ \E nvmDirExists \in {TRUE, dirs # {}}, ok \in BOOLEAN :
       IF Absent(latestLts')
       THEN /\ pc' = "done"
            /\ Log(Ev("no-latest", NoPkg, NoVersion, FALSE, "", 0))
            /\ UNCHANGED installedVersions
       ELSE IF ~nvmDirExists
       THEN /\ pc' = "done"
            /\ Log(Ev("no-nvm-dir", NoPkg, NoVersion, FALSE, "", 0))
            /\ UNCHANGED installedVersions
       ELSE /\ installedVersions' = getInstalledNodeVersions(ok)
            /\ pc' = IF Len(installedVersions') = 0 THEN "done" ELSE "loop"
            /\ UNCHANGED trace
  /\ UNCHANGED <<worldVars, inputVars, allPackages, alreadyHasLatest,
                 missingPackages, packagesToInstall, idx, skipAll,
                 installAll, cleanupVars, fixVars, migrateVars>>

\* if (version === latestLts) continue
FixSkipLatest ==
  /\ cmd = "fix-failed" /\ pc = "loop"
  /\ idx <= Len(installedVersions)
  /\ installedVersions[idx] = latestLts
  /\ Log(Ev("preserved", NoPkg, latestLts, TRUE, "", idx))
  /\ idx' = idx + 1
  /\ UNCHANGED <<pc, worldVars, inputVars, allPackages, latestLts,
                 installedVersions, alreadyHasLatest, missingPackages,
                 packagesToInstall, skipAll, installAll, cleanupVars,
                 fixVars, migrateVars>>

\* const uninstallSuccess = await uninstallNodeVersion(version)
FixUninstall ==
  /\ cmd = "fix-failed" /\ pc = "loop"
  /\ idx <= Len(installedVersions)
  /\ installedVersions[idx] # latestLts
  /\ LET version == installedVersions[idx]
     IN \E o \in UninstallOutcomes :
          /\ UninstallEffect(version, o)
          /\ uninstallSuccess' = o.ok
          /\ Log(Ev("uninstall", NoPkg, version, o.ok, "", idx))
          /\ vstate' = [vstate EXCEPT ![version] = "uninstall-attempted"]
          /\ pc' = FixPcOf(vstate'[version])
  /\ UNCHANGED <<ledger, registry, availLts>>
  /\ UNCHANGED <<inputVars, allPackages, latestLts, installedVersions,
                 alreadyHasLatest, missingPackages, packagesToInstall, idx,
                 skipAll, installAll, cleanupVars, migrateVars>>

\* const stillListed = await isVersionStillListed(version); the success exit
FixCheckListed ==
  /\ cmd = "fix-failed" /\ pc = "check"
  /\ LET version == installedVersions[idx]
     IN \E stillListed \in StillListedOutcomes(version) :
          LET phase == PhaseAfterCheck(uninstallSuccess, stillListed)
              check == Ev("listed", NoPkg, version, stillListed,
                          "after-uninstall", idx)
          IN /\ vstate' = [vstate EXCEPT ![version] = phase]
             /\ pc' = FixPcOf(phase)
             /\ idx' = IF pc' = "loop" THEN idx + 1 ELSE idx
             /\ IF phase = "uninstalled"
                THEN Log2(check, Ev("reported", NoPkg, version, TRUE, "", idx))
                ELSE Log(check)
  /\ UNCHANGED <<worldVars, inputVars, allPackages, latestLts,
                 installedVersions, alreadyHasLatest, missingPackages,
                 packagesToInstall, skipAll, installAll, cleanupVars,
                 uninstallSuccess, migrateVars>>

\* the manual-deletion prompt, the path lookup, fs.rmSync, and the listing
\* check of the branch without a folder
FixPrompt ==
  /\ cmd = "fix-failed" /\ pc = "prompt"
  /\ LET version == installedVersions[idx]
         path == PathToDelete(version)
     IN \E shouldDelete \in BOOLEAN, rmOk \in BOOLEAN, unlist \in BOOLEAN,
           stillListedNoFolder \in StillListedOutcomes(version) :
          LET phase == PhaseAfterPrompt(shouldDelete, path, rmOk)
              prompt == Ev("prompt", NoPkg, version, shouldDelete, "", idx)
          IN /\ vstate' = [vstate EXCEPT ![version] = phase]
             /\ pc' = FixPcOf(phase)
             /\ idx' = IF pc' = "loop" THEN idx + 1 ELSE idx
             /\ CASE phase = "skip" ->
                       /\ ~rmOk /\ ~unlist /\ ~stillListedNoFolder
                       /\ Log(prompt)
                       /\ UNCHANGED <<dirs, nvmList>>
                  [] phase = "no-folder" ->
                       /\ ~rmOk /\ ~unlist
                       /\ trace' = trace \o <<prompt,
                            Ev("listed", NoPkg, version, stillListedNoFolder,
                               "no-folder", idx)>>
                            \o (IF stillListedNoFolder
                                THEN <<Ev("guidance", NoPkg, version, TRUE,
                                          "", idx)>>
                                ELSE <<>>)
                       /\ UNCHANGED <<dirs, nvmList>>
                  [] phase = "force-removed" ->
                       /\ ~stillListedNoFolder
                       /\ Log2(prompt,
                               Ev("rm", NoPkg, version, TRUE, path[1], idx))
                       /\ dirs' = dirs \ {path}
                       /\ nvmList' = IF unlist THEN nvmList \ {version}
                                     ELSE nvmList
                  [] OTHER ->
                       /\ ~unlist /\ ~stillListedNoFolder
                       /\ Log2(prompt,
                               Ev("rm", NoPkg, version, FALSE, path[1], idx))
                       /\ UNCHANGED <<dirs, nvmList>>
  /\ UNCHANGED <<ledger, active, globals, registry, availLts>>
  /\ UNCHANGED <<inputVars, allPackages, latestLts, installedVersions,
                 alreadyHasLatest, missingPackages, packagesToInstall,
                 skipAll, installAll, cleanupVars, uninstallSuccess,
                 migrateVars>>

\* const stillListedAfterDelete = await isVersionStillListed(version)
FixVerify ==
  /\ cmd = "fix-failed" /\ pc = "verify"
  /\ LET version == installedVersions[idx]
     IN \E stillListed \in StillListedOutcomes(version) :
          LET phase == PhaseAfterVerify(stillListed)
          IN /\ vstate' = [vstate EXCEPT ![version] = phase]
             /\ pc' = FixPcOf(phase)
             /\ idx' = IF pc' = "loop" THEN idx + 1 ELSE idx
             /\ Log(Ev("listed", NoPkg, version, stillListed,
                       "after-delete", idx))
  /\ UNCHANGED <<worldVars, inputVars, allPackages, latestLts,
                 installedVersions, alreadyHasLatest, missingPackages,
                 packagesToInstall, skipAll, installAll, cleanupVars,
                 uninstallSuccess, migrateVars>>

\* console.log('Cleanup of phantom Node.js versions complete.')
FixComplete ==
  /\ cmd = "fix-failed" /\ pc = "loop"
  /\ idx > Len(installedVersions)
  /\ Log(Ev("complete", NoPkg, latestLts, TRUE, "", 0))
  /\ pc' = "done"
  /\ UNCHANGED <<worldVars, inputVars, localVars>>

NextFixFailed ==
  FixStart \/ FixSkipLatest \/ FixUninstall \/ FixCheckListed \/ FixPrompt
  \/ FixVerify \/ FixComplete

SpecFixFailed == InitFixFailed /\ [][NextFixFailed]_vars

\* ---------------------------------------------------------------- migrate
\* the "Latest stable LTS (default)" choice of the target prompt
LatestChoice == NumVersions + 2
\* the "All versions" choice of the source prompt, fromVersion "all"
FromAll == NumVersions + 3

\* program.optsWithGlobals() of the root program, which declares none of
\* --to, --from, --yes: opts.to, opts.from and opts.y are undefined
OptsOf(flags) == [to |-> NoVersion, from |-> NoVersion, y |-> Null]

InitMigrate ==
  /\ cmd = "migrate"
  /\ pc = "start"
  /\ entries = <<>>
  /\ ledger = [exists |-> FALSE, contents |-> <<>>]
  /\ argv \in [to : {NoVersion}, from : {NoVersion}, yes : BOOLEAN,
              versions : {<<>>}]
  /\ NoListing
  /\ nvmList \in SUBSET Versions \ {{}}
  /\ active \in nvmList
  /\ dirs = {<<"v", v>> : v \in nvmList}
  /\ availLts \in Versions \cup {NoVersion}
  /\ registry = [p \in WorldPkgs |-> "2.0.0"]
  /\ globals \in [Versions -> [WorldPkgs -> {Null, "1.0.0"}]]
  /\ \A v \in Versions :
       /\ globals[v][pab] = Null
       /\ v \notin nvmList => globals[v] = NoGlobals
  /\ IdleLocals

\* the text of a package version
PkgVersionText(ver) ==
  IF ver = "1.0.0" THEN <<"1", ".", "0", ".", "0">>
  ELSE IF ver = "2.0.0" THEN <<"2", ".", "0", ".", "0">>
  ELSE <<"n", "u", "l", "l">>

\* the packages npm knows, in the order "npm ls --json" lists them
WorldPkgList == JsSort(<<pa, pab, ps>>)

\* Object.keys(data.dependencies).filter(pkg => pkg !== 'npm') of a version
GlobalPackagesOf(version) ==
  LET Installed(p) == globals[version][p] # Null
  IN IF version \notin Versions THEN <<>>
     ELSE SelectSeq(WorldPkgList, Installed)

\* getGlobalPackagesForVersion(version): the packages it returns and the
\* version in use when it returns. orig: getCurrentNodeVersion() gave the
\* version in use; used: "nvm use version" succeeded; listed: "npm ls"
\* succeeded; reverted: "nvm use originalVersion" succeeded
GlobalPackagesOutcomes(version) ==
  {[pkgs |-> IF used /\ listed THEN GlobalPackagesOf(version) ELSE <<>>,
    active |-> IF ~used THEN active
               ELSE IF orig /\ reverted THEN active
               ELSE version] :
     orig \in BOOLEAN,
     used \in (IF version = active THEN {TRUE} ELSE SwitchOutcomes(version)),
     listed \in BOOLEAN,
     reverted \in BOOLEAN}

\* let installedVersions = await getInstalledNodeVersions()
MigrateStart ==
  /\ cmd = "migrate" /\ pc = "start"
  /\ \E ok \in BOOLEAN :
       installedVersions' = getInstalledNodeVersions(ok)
  /\ IF Len(installedVersions') = 0
     THEN /\ pc' = "done"
          /\ Log(Ev("no-versions", NoPkg, NoVersion, FALSE, "", 0))
     ELSE /\ pc' = "prompts"
          /\ UNCHANGED trace
  /\ UNCHANGED <<worldVars, inputVars, allPackages, latestLts,
                 alreadyHasLatest, missingPackages, packagesToInstall, idx,
                 skipAll, installAll, cleanupVars, fixVars, migrateVars>>

\* the three prompts, targetVersion, fromVersion, installAll
MigratePrompts ==
  /\ cmd = "migrate" /\ pc = "prompts"
  /\ LET opts == OptsOf(argv)
     IN \E to \in Range(installedVersions) \cup {LatestChoice},
           from \in Range(installedVersions) \cup {FromAll},
           all \in BOOLEAN :
          /\ targetVersion' =
               IF opts.to # NoVersion THEN opts.to
               ELSE IF to = LatestChoice THEN availLts ELSE to
          /\ fromVersion' = IF opts.from # NoVersion THEN opts.from ELSE from
          /\ installAll' = IF opts.y # Null THEN TRUE ELSE all
          /\ IF Absent(targetVersion')
             THEN /\ pc' = "done"
                  /\ Log(Ev("no-latest", NoPkg, NoVersion, FALSE, "", 0))
             ELSE /\ pc' = IF SeqIncludes(installedVersions, targetVersion')
                           THEN "switch" ELSE "installTarget"
                  /\ Log(Ev("answers", NoPkg, targetVersion', all, "", from))
  /\ UNCHANGED <<worldVars, inputVars, allPackages, latestLts,
                 installedVersions, alreadyHasLatest, missingPackages,
                 packagesToInstall, idx, skipAll, cleanupVars, fixVars,
                 packageMap>>

\* installNodeVersion(targetVersion) and the refreshed listing
MigrateInstallTarget ==
  /\ cmd = "migrate" /\ pc = "installTarget"
  /\ \E installSuccess \in BOOLEAN, ok \in BOOLEAN :
       /\ nvmList' = IF installSuccess THEN nvmList \cup {targetVersion}
                     ELSE nvmList
       /\ dirs' = IF installSuccess THEN dirs \cup {<<"v", targetVersion>>}
                  ELSE dirs
       /\ installedVersions' =
            IF ~installSuccess THEN installedVersions
            ELSE IF ok THEN VersionList(nvmList') ELSE <<>>
       /\ Log(Ev("installNode", NoPkg, targetVersion, installSuccess, "", 0))
       /\ pc' = IF installSuccess
                   /\ SeqIncludes(installedVersions', targetVersion)
                THEN "switch" ELSE "done"
  /\ UNCHANGED <<ledger, active, globals, registry, availLts>>
  /\ UNCHANGED <<inputVars, allPackages, latestLts, alreadyHasLatest,
                 missingPackages, packagesToInstall, idx, skipAll,
                 installAll, cleanupVars, fixVars, migrateVars>>

\* const switched = await switchNodeVersion(targetVersion): a failure is
\* a warning only
MigrateSwitch ==
  /\ cmd = "migrate" /\ pc = "switch"
  /\ \E switched \in SwitchOutcomes(targetVersion) :
       /\ Log(Ev("switch", NoPkg, targetVersion, switched, "", 0))
       /\ active' = IF switched THEN targetVersion ELSE active
  /\ pc' = IF fromVersion = FromAll THEN "gatherAll" ELSE "gatherOne"
  /\ UNCHANGED <<ledger, nvmList, dirs, globals, registry, availLts>>
  /\ UNCHANGED <<inputVars, allPackages, latestLts, installedVersions,
                 alreadyHasLatest, missingPackages, packagesToInstall, idx,
                 skipAll, installAll, cleanupVars, fixVars, migrateVars>>

\* one iteration of for (const version of installedVersions) with
\* fromVersion "all": the first package found calls runNvmCmd, which
\* utils.js does not export, and the TypeError ends the command
MigrateGatherAll ==
  /\ cmd = "migrate" /\ pc = "gatherAll"
  /\ idx <= Len(installedVersions)
  /\ \E o \in GlobalPackagesOutcomes(installedVersions[idx]) :
       /\ active' = o.active
       /\ IF Len(o.pkgs) > 0
          THEN /\ pc' = "crashed"
               /\ Log(Ev("crash", o.pkgs[1], installedVersions[idx], FALSE,
                         "", 0))
               /\ UNCHANGED idx
          ELSE /\ idx' = idx + 1
               /\ UNCHANGED <<pc, trace>>
  /\ UNCHANGED <<ledger, nvmList, dirs, globals, registry, availLts>>
  /\ UNCHANGED <<inputVars, allPackages, latestLts, installedVersions,
                 alreadyHasLatest, missingPackages, packagesToInstall,
                 skipAll, installAll, cleanupVars, fixVars, migrateVars>>

\* fromVersion "all" and no version had a package: packageMap is empty
MigrateGatherAllEnd ==
  /\ cmd = "migrate" /\ pc = "gatherAll"
  /\ idx > Len(installedVersions)
  /\ pc' = "done"
  /\ idx' = 1
  /\ Log(Ev("no-packages", NoPkg, NoVersion, TRUE, "", 0))
  /\ UNCHANGED <<worldVars, inputVars, allPackages, latestLts,
                 installedVersions, alreadyHasLatest, missingPackages,
                 packagesToInstall, skipAll, installAll, cleanupVars,
                 fixVars, migrateVars>>

\* what "nvm use <fromVersion> && npm ls -g <pkg>" can do for one package
QueryOutcomes == {"ok", "use-failed", "ls-failed"}

IsOk(e) == e[3] = "ok"

\* packageMap after the per-package queries had the outcomes q
PackageMapOf(pkgs, version, q) ==
  LET all == [i \in 1..Len(pkgs) |->
                <<pkgs[i], globals[version][pkgs[i]], q[i]>>]
      kept == SelectSeq(all, IsOk)
  IN [i \in 1..Len(kept) |-> <<kept[i][1], kept[i][2]>>]

\* Object.keys(packageMap)
Keys(map) == [i \in 1..Len(map) |-> map[i][1]]

\* the source is one version: its packages and the version of each
MigrateGatherOne ==
  /\ cmd = "migrate" /\ pc = "gatherOne"
  /\ \E o \in GlobalPackagesOutcomes(fromVersion) :
       \E q \in [1..Len(o.pkgs) -> QueryOutcomes] :
         /\ packageMap' = PackageMapOf(o.pkgs, fromVersion, q)
         /\ active' = IF \E i \in 1..Len(o.pkgs) : q[i] # "use-failed"
                      THEN fromVersion ELSE o.active
  /\ allPackages' = Keys(packageMap')
  /\ IF Len(allPackages') = 0
     THEN /\ pc' = "done"
          /\ Log(Ev("no-packages", NoPkg, NoVersion, TRUE, "", 0))
     ELSE /\ pc' = IF installAll THEN "loop" ELSE "select"
          /\ UNCHANGED trace
  /\ UNCHANGED <<ledger, nvmList, dirs, globals, registry, availLts>>
  /\ UNCHANGED <<inputVars, latestLts, installedVersions, alreadyHasLatest,
                 missingPackages, packagesToInstall, idx, skipAll,
                 installAll, cleanupVars, fixVars, targetVersion,
                 fromVersion>>

\* `${pkg}@${packageMap[pkg]}`
ChoiceText(entry) == entry[1] \o <<"@">> \o PkgVersionText(entry[2])

\* str.split('@')[0]
ChoiceName(str) == Split(str, "@")[1]

\* the checkbox prompt: the selected choices, in the order of the list
MigrateSelect ==
  /\ cmd = "migrate" /\ pc = "select"
  /\ \E sel \in SUBSET (1..Len(packageMap)) :
       LET picked == VersionList(sel)
           ticked == [i \in 1..Len(picked) |-> packageMap[picked[i]][1]]
       IN /\ allPackages' =
               [i \in 1..Len(picked) |->
                  ChoiceName(ChoiceText(packageMap[picked[i]]))]
          /\ IF Len(allPackages') = 0
             THEN /\ pc' = "done"
                  /\ Log(Ev("none-selected", NoPkg, NoVersion, TRUE, "", 0))
             ELSE /\ pc' = "loop"
                  /\ Log(Ev("selected", Join(ticked, <<",">>), NoVersion,
                            TRUE, "", Len(allPackages')))
  /\ UNCHANGED <<worldVars, inputVars, latestLts, installedVersions,
                 alreadyHasLatest, missingPackages, packagesToInstall, idx,
                 skipAll, installAll, cleanupVars, fixVars, migrateVars>>

\* the outcomes of "npm install -g <packageName>"
MigrateInstallOutcomes(packageName) ==
  IF packageName \in WorldPkgs THEN InstallOutcomes(packageName)
  ELSE {TRUE, FALSE}

MigrateLoopExitOnFailure(success) == IF success THEN "loop" ELSE "done"

\* the package loop goes on whatever installGlobalPackage returned
MigrateLoopExit(success) == "loop"

\* one iteration of for (const packageName of allPackages)
MigrateLoopStep ==
  /\ cmd = "migrate" /\ pc = "loop"
  /\ idx <= Len(allPackages)
  /\ idx' = idx + 1
  /\ LET packageName == allPackages[idx]
     IN \E success \in MigrateInstallOutcomes(packageName) :
          /\ Log(Ev("install", packageName, active, success, "", idx))
          /\ globals' = GlobalsAfterInstall(packageName, success)
          /\ pc' = MigrateLoopExit(success)
  /\ UNCHANGED <<ledger, nvmList, dirs, active, registry, availLts>>
  /\ UNCHANGED <<inputVars, allPackages, latestLts, installedVersions,
                 alreadyHasLatest, missingPackages, packagesToInstall,
                 skipAll, installAll, cleanupVars, fixVars, migrateVars>>

\* console.log("Successfully migrated global packages ...")
MigrateComplete ==
  /\ cmd = "migrate" /\ pc = "loop"
  /\ idx > Len(allPackages)
  /\ Log(Ev("complete", NoPkg, targetVersion, TRUE, "", 0))
  /\ pc' = "done"
  /\ UNCHANGED <<worldVars, inputVars, localVars>>

NextMigrate ==
  \/ MigrateStart \/ MigratePrompts \/ MigrateInstallTarget
  \/ MigrateSwitch \/ MigrateGatherAll \/ MigrateGatherAllEnd
  \/ MigrateGatherOne \/ MigrateSelect \/ MigrateLoopStep
  \/ MigrateComplete

SpecMigrate == InitMigrate /\ [][NextMigrate]_vars

\* both lookups of pkg gave a version, and the same one
UpToDate(pkg) ==
  /\ getInstalledPackageVersion(pkg) # Null
  /\ getLatestPackageVersion(pkg) # Null
  /\ getInstalledPackageVersion(pkg) = getLatestPackageVersion(pkg)

NewEvents == {trace'[i] : i \in (Len(trace) + 1)..Len(trace')}

\* C2: install-lts never prompts for and never installs a package whose
\* installed version and latest registry version are both present and equal.
C2_UpToDateNeverTouched ==
  [][cmd = "install-lts" =>
       \A e \in NewEvents :
         e.kind \in {"prompt", "install"} => ~UpToDate(e.pkg)]_vars

\* C3: after the pre-check a package is outside missingPackages iff both
\* its versions are present and equal.
C3_CandidateIffNotUpToDate ==
  (cmd = "install-lts" /\ pc = "confirm") =>
    \A i \in 1..Len(allPackages) :
      ~SeqIncludes(missingPackages, allPackages[i]) <=> UpToDate(allPackages[i])

SideEffectKinds == {"confirm", "installNode", "switch", "install", "prompt"}

\* C4: when the latest stable version is installed and no package is
\* missing, install-lts ends with no confirmation, no install, no switch,
\* and leaves versions, active version and global packages as they were.
C4_NoOpWhenUpToDate ==
  (/\ cmd = "install-lts"
   /\ pc \notin {"start", "getLatest", "listVersions", "precheck"}
   /\ alreadyHasLatest
   /\ Len(missingPackages) = 0)
  => /\ pc = "done"
     /\ \A i \in 1..Len(trace) : trace[i].kind \notin SideEffectKinds
     /\ System = world0

\* the up-to-date exit was taken with two packages in the ledger
C4_Witness ==
  /\ cmd = "install-lts" /\ pc = "done"
  /\ alreadyHasLatest /\ Len(allPackages) = 2 /\ Len(missingPackages) = 0
  /\ trace # <<>> /\ trace[Len(trace)].kind = "up-to-date"

InstalledAt(j) ==
  \E m \in 1..Len(trace) :
    /\ trace[m].kind = "install" /\ trace[m].at = j
    /\ trace[m].pkg = packagesToInstall[j]

\* C5: after "Yes to all remaining" at candidate k every candidate k..n is
\* installed and no further prompt is shown; after "No to all remaining" at
\* candidate k none of k..n is installed and no further prompt is shown; the
\* loop runs to the last candidate.
C5_StickyChoices ==
  cmd = "install-lts" =>
    /\ \A i \in 1..Len(trace) :
         (trace[i].kind = "prompt" /\ trace[i].ans = "y-all") =>
           /\ \A j \in trace[i].at..(idx - 1) : InstalledAt(j)
           /\ \A m \in (i + 1)..Len(trace) : trace[m].kind # "prompt"
    /\ \A i \in 1..Len(trace) :
         (trace[i].kind = "prompt" /\ trace[i].ans = "n-all") =>
           /\ \A j \in trace[i].at..(idx - 1) : ~InstalledAt(j)
           /\ \A m \in (i + 1)..Len(trace) : trace[m].kind # "prompt"
    /\ (pc = "done" /\ Len(packagesToInstall) > 0) =>
         idx = Len(packagesToInstall) + 1

\* "Yes to all remaining" was chosen at the first of two candidates and the
\* second one was installed without a prompt
C5_Witness ==
  /\ cmd = "install-lts" /\ pc = "done"
  /\ Len(packagesToInstall) = 2
  /\ \E i \in 1..Len(trace) :
       trace[i].kind = "prompt" /\ trace[i].ans = "y-all" /\ trace[i].at = 1
  /\ InstalledAt(2)

FlagsStaySet ==
  cmd \in {"install-lts", "cleanup"} =>
    /\ (skipAll => skipAll')
    /\ (installAll => installAll')
    /\ (uninstallAll => uninstallAll')

\* C6: the sticky flags of the install-lts and cleanup loops are false
\* until the loop runs, are never reset once set, and are never both set.
C6_PolicyMonotonic ==
  /\ [](cmd \in {"install-lts", "cleanup"} =>
          /\ ~(skipAll /\ installAll)
          /\ ~(skipAll /\ uninstallAll)
          /\ (pc \notin {"loop", "done"} =>
                ~skipAll /\ ~installAll /\ ~uninstallAll))
  /\ [][FlagsStaySet]_vars

\* cleanup ended after "Yes to all remaining" was chosen at the first of two
\* versions
C6_Witness ==
  /\ cmd = "cleanup" /\ pc = "done"
  /\ Len(toUninstall) = 2 /\ uninstallAll /\ ~skipAll
  /\ \E i \in 1..Len(trace) :
       trace[i].kind = "prompt" /\ trace[i].ans = "y-all" /\ trace[i].at = 1

EventsOf(version, kinds) ==
  {i \in 1..Len(trace) : trace[i].ver = version /\ trace[i].kind \in kinds}

\* C8: in fix-failed, a version whose uninstall returned true and whose
\* listing check then returned false gets no manual-deletion prompt and no
\* directory deletion, and the loop has moved past it.
C8_CleanUninstallNoPrompt ==
  cmd = "fix-failed" =>
    \A i \in 2..Len(trace) :
      (/\ trace[i].kind = "listed" /\ trace[i].ans = "after-uninstall"
       /\ ~trace[i].ok
       /\ trace[i - 1].kind = "uninstall" /\ trace[i - 1].ok) =>
        /\ EventsOf(trace[i].ver, {"prompt", "rm"}) = {}
        /\ vstate[trace[i].ver] = "uninstalled"
        /\ idx > trace[i].at

\* a version was uninstalled and found gone while another one was prompted
C8_Witness ==
  /\ cmd = "fix-failed" /\ pc = "done"
  /\ \E v, w \in Versions :
       /\ vstate[v] = "uninstalled"
       /\ \E i \in EventsOf(v, {"uninstall"}) : trace[i].ok
       /\ EventsOf(w, {"prompt"}) # {}

\* the step that answers the manual-deletion prompt of a version whose
\* uninstall failed and that has neither directory
FailedWithoutFolder ==
  /\ cmd = "fix-failed" /\ pc = "prompt"
  /\ ~uninstallSuccess
  /\ PathToDelete(installedVersions[idx]) = NoPath

GuidancePrinted == \E e \in NewEvents : e.kind = "guidance"

AcceptedAndStillListed ==
  /\ \E e \in NewEvents : e.kind = "prompt" /\ e.ok
  /\ \E e \in NewEvents : e.kind = "listed" /\ e.ok

\* C9 as stated: uninstall failed and neither directory exists, then the
\* settings-file guidance is printed and no deletion is attempted.
C9_GuidanceAlways ==
  [][FailedWithoutFolder =>
       (GuidancePrinted /\ \A e \in NewEvents : e.kind # "rm")]_vars

\* C9 amended: uninstall failed and neither directory exists, then no
\* deletion is attempted, and the guidance is printed exactly when the user
\* accepted the prompt and the version was then reported as still listed.
C9_GuidanceWhenAcceptedAndListed ==
  [][FailedWithoutFolder =>
       ((\A e \in NewEvents : e.kind # "rm")
        /\ (GuidancePrinted <=> AcceptedAndStillListed))]_vars

\* the guidance was printed for a version whose uninstall had failed
C9_Witness ==
  /\ cmd = "fix-failed"
  /\ \E v \in Versions :
       /\ EventsOf(v, {"guidance"}) # {}
       /\ \E i \in EventsOf(v, {"uninstall"}) : ~trace[i].ok
       /\ EventsOf(v, {"rm"}) = {}
       /\ vstate[v] = "no-folder"

SpecTransitions ==
  {<<"installed", "uninstall-attempted">>,
   <<"uninstall-attempted", "uninstalled">>,
   <<"uninstall-attempted", "still-listed">>,
   <<"still-listed", "force-removed">>,
   <<"still-listed", "skip">>,
   <<"force-removed", "no-longer-listed">>,
   <<"force-removed", "still-listed-warn">>}

SpecTerminals ==
  {"uninstalled", "no-longer-listed", "still-listed-warn", "skip"}

CodeTransitions ==
  SpecTransitions \cup
  {<<"uninstall-attempted", "uninstall-failed">>,
   <<"uninstall-failed", "force-removed">>,
   <<"uninstall-failed", "skip">>,
   <<"uninstall-failed", "no-folder">>,
   <<"uninstall-failed", "delete-failed">>,
   <<"still-listed", "no-folder">>,
   <<"still-listed", "delete-failed">>}

CodeTerminals == SpecTerminals \cup {"no-folder", "delete-failed"}

\* every change of a version's state is one of the given transitions, and
\* the loop leaves a version it has attempted only in a terminal state
FollowsWorkflow(transitions, terminals) ==
  cmd = "fix-failed" =>
    /\ \A v \in Versions :
         vstate'[v] # vstate[v] => <<vstate[v], vstate'[v]>> \in transitions
    /\ (idx' # idx /\ installedVersions[idx] # latestLts) =>
         vstate'[installedVersions[idx]] \in terminals

\* C10 as stated: only the transitions of the specification's state machine
\* and its four terminal states.
C10_SpecWorkflow == [][FollowsWorkflow(SpecTransitions, SpecTerminals)]_vars

\* C10 amended: the state machine with the state uninstall-failed (uninstall
\* returned false, version not listed) next to still-listed, and with the
\* terminal states no-folder and delete-failed after the prompt.
C10_CodeWorkflow == [][FollowsWorkflow(CodeTransitions, CodeTerminals)]_vars

\* fix-failed ended with one version force-removed and found gone
C10_Witness ==
  /\ cmd = "fix-failed" /\ pc = "done"
  /\ \E v \in Versions :
       /\ vstate[v] = "no-longer-listed"
       /\ EventsOf(v, {"rm"}) # {}
  /\ \A v \in Versions : vstate[v] \in CodeTerminals \cup {"installed"}

\* ------------------------------------------- the commands taken together
\* install-lts and cleanup, the two commands with a sticky prompt policy
SpecChoices ==
  (InitInstall \/ InitCleanup) /\ [][NextInstall \/ NextCleanup]_vars

\* install-lts and migrate, the two commands with a package install loop
SpecPackageLoops ==
  (InitInstall \/ InitMigrate) /\ [][NextInstall \/ NextMigrate]_vars

\* the list the package loop of the running command goes over
LoopList == IF cmd = "install-lts" THEN packagesToInstall ELSE allPackages

LoopKinds == {"install", "prompt", "skipped", "already-latest"}

\* the loop handled position k of its list
ProcessedAt(k) ==
  \E j \in 1..Len(trace) : trace[j].at = k /\ trace[j].kind \in LoopKinds

\* installGlobalPackage was called for the package at position k
LoopInstalledAt(k) ==
  \E m \in 1..Len(trace) :
    /\ trace[m].kind = "install" /\ trace[m].at = k
    /\ trace[m].pkg = LoopList[k]

\* position k was handled as the policy then in force demands: migrate
\* installs every package, install-lts installs without a prompt once
\* "Yes to all remaining" was chosen at an earlier position
ProcessedUnderPolicy(k) ==
  /\ ProcessedAt(k)
  /\ cmd = "migrate" => LoopInstalledAt(k)
  /\ (\E j \in 1..Len(trace) :
        /\ trace[j].kind = "prompt" /\ trace[j].ans = "y-all"
        /\ trace[j].at < k) =>
       /\ LoopInstalledAt(k)
       /\ \A j \in 1..Len(trace) : trace[j].at = k => trace[j].kind # "prompt"

FailedInstalls ==
  {i \in 1..Len(trace) : trace[i].kind = "install" /\ ~trace[i].ok}

\* C7: after a failed installGlobalPackage call the package loop of
\* install-lts and of migrate is still running or has ended with the
\* completion message, every later package handled so far was handled
\* under the policy in force, and a running loop can always take its next
\* step.
C7_FailureDoesNotEndLoop ==
  cmd \in {"install-lts", "migrate"} =>
    \A i \in FailedInstalls :
      /\ pc \in {"loop", "done"}
      /\ idx > trace[i].at
      /\ \A k \in (trace[i].at + 1)..(idx - 1) : ProcessedUnderPolicy(k)
      /\ pc = "loop" =>
           ENABLED (\/ InstallLoopStep \/ InstallComplete
                    \/ MigrateLoopStep \/ MigrateComplete)
      /\ pc = "done" =>
           /\ trace[Len(trace)].kind = "complete"
           /\ idx = Len(LoopList) + 1

\* migrate printed its completion message after the first of two
\* packages failed to install and the second was installed
C7_Witness ==
  /\ cmd = "migrate" /\ pc = "done"
  /\ Len(allPackages) = 2
  /\ \E i \in FailedInstalls : trace[i].at = 1
  /\ \E j \in 1..Len(trace) :
       trace[j].kind = "install" /\ trace[j].ok /\ trace[j].at = 2
  /\ trace[Len(trace)].kind = "complete"

\* ------------------------------------------------- fix-failed and cleanup
\* the listing check that followed the uninstall attempt of the version
\* reported it as still listed
ListedAfterUninstall(version) ==
  \E i \in EventsOf(version, {"listed"}) :
    trace[i].ans = "after-uninstall" /\ trace[i].ok

\* the uninstall call for the version returned false
UninstallFailed(version) ==
  \E i \in EventsOf(version, {"uninstall"}) : ~trace[i].ok

\* C11 as stated: fix-failed shows the manual-deletion prompt and deletes a
\* directory for a version only if the listing check after the uninstall
\* attempt reported the version as still listed.
C11_ForceOnlyIfListed ==
  cmd = "fix-failed" =>
    \A v \in Versions :
      EventsOf(v, {"prompt", "rm"}) # {} => ListedAfterUninstall(v)

\* C11 amended: the prompt and the deletion are reached only if the
\* uninstall call returned false or the listing check after it reported the
\* version as still listed.
C11_ForceOnlyIfFailedOrListed ==
  cmd = "fix-failed" =>
    \A v \in Versions :
      EventsOf(v, {"prompt", "rm"}) # {} =>
        (UninstallFailed(v) \/ ListedAfterUninstall(v))

\* a directory was deleted for a version that was reported as still listed
\* after an uninstall call that returned true
C11_Witness ==
  /\ cmd = "fix-failed"
  /\ \E v \in Versions :
       /\ \E i \in EventsOf(v, {"rm"}) : trace[i].ok
       /\ ListedAfterUninstall(v)
       /\ ~UninstallFailed(v)

\* cleanup and fix-failed, the two commands that uninstall versions
SpecUninstalls ==
  (InitCleanup \/ InitFixFailed) /\ [][NextCleanup \/ NextFixFailed]_vars

\* C12: every report of a successful uninstall of a version follows a
\* listing check of that version that returned false and was itself made
\* after the uninstall call.
C12_ReportAfterCheck ==
  cmd \in {"cleanup", "fix-failed"} =>
    \A i \in 1..Len(trace) :
      trace[i].kind = "reported" =>
        \E j \in 1..(i - 1), k \in 1..(i - 1) :
          /\ k < j
          /\ trace[k].kind = "uninstall" /\ trace[k].ver = trace[i].ver
          /\ trace[j].kind = "listed" /\ trace[j].ver = trace[i].ver
          /\ ~trace[j].ok

\* C13: cleanup and fix-failed issue no uninstall call, no prompt and no
\* directory deletion for the version detected as latest stable.
C13_LatestPreserved ==
  cmd \in {"cleanup", "fix-failed"} =>
    \A i \in 1..Len(trace) :
      trace[i].kind \in {"uninstall", "prompt", "rm"} =>
        trace[i].ver # latestLts

\* cleanup ended after "Yes to all remaining" with the latest stable version
\* among the installed ones and another version uninstalled
C13_Witness ==
  /\ cmd = "cleanup" /\ pc = "done" /\ uninstallAll
  /\ SeqIncludes(installedVersions, latestLts)
  /\ \E i \in 1..Len(trace) : trace[i].kind = "uninstall" /\ trace[i].ok

\* ------------------------------------------------------- all the commands
SpecCommands ==
  /\ (InitInstall \/ InitCleanup \/ InitFixFailed \/ InitMigrate)
  /\ [][NextInstall \/ NextCleanup \/ NextFixFailed \/ NextMigrate]_vars

\* a switch, a Node install or uninstall, a directory deletion or a package
\* install is in the history
ChangeKinds == {"switch", "installNode", "uninstall", "rm", "install"}

NothingDone ==
  /\ \A i \in 1..Len(trace) : trace[i].kind \notin ChangeKinds
  /\ System = world0

NoLatestReported == \E i \in 1..Len(trace) : trace[i].kind = "no-latest"

\* C14: when the latest stable version cannot be detected, cleanup,
\* fix-failed and install-lts do nothing to the system, migrate does nothing
\* once "latest" was chosen as its target, the command has ended with that
\* report, and no switch or Node install is issued for an absent version.
C14_NoLatestStops ==
  /\ (availLts = NoVersion /\ cmd \in {"cleanup", "fix-failed", "install-lts"})
       => NothingDone /\ latestLts = NoVersion
  /\ NoLatestReported =>
       /\ pc = "done"
       /\ trace[Len(trace)].kind = "no-latest"
       /\ NothingDone
       /\ latestLts = NoVersion /\ targetVersion = NoVersion
  /\ \A i \in 1..Len(trace) :
       trace[i].kind \in {"switch", "installNode", "uninstall"} =>
         trace[i].ver # NoVersion

\* migrate ended on the missing latest stable version after the prompts
C14_Witness ==
  /\ cmd = "migrate" /\ pc = "done"
  /\ availLts = NoVersion
  /\ NoLatestReported
  /\ Len(installedVersions) > 0

\* ---------------------------------------------------------------- migrate
\* a step of the source "all" loop, which is one call of
\* getGlobalPackagesForVersion
GatherAllStep ==
  /\ cmd = "migrate" /\ pc = "gatherAll"
  /\ idx <= Len(installedVersions)

CallRestoresActive == GatherAllStep => active' = active

\* C15: the version in use when getGlobalPackagesForVersion returns is the
\* version that was in use when it was called.
C15_ActiveRestored == [][CallRestoresActive]_vars

\* C16: no command ends by an exception: every run returns normally.
C16_NoCrash == pc # "crashed"

\* ---------------------------------------------------- isVersionStillListed
MaxListing == 7

\* the characters of the listings examined: a digit, the dot, the blank
ListingChars == {"1", ".", " "}

Listings == UNION {[1..n -> ListingChars] : n \in 0..MaxListing}

\* the versions asked about: 1.1 and 1.1.1
QueryVersions == {<<"1", ".", "1">>, <<"1", ".", "1", ".", "1">>}

\* \w of a JavaScript regular expression
WordChars ==
  {"0", "1", "2", "3", "4", "5", "6", "7", "8", "9", "_",
   "a", "b", "c", "d", "e", "f", "g", "h", "i", "j", "k", "l", "m",
   "n", "o", "p", "q", "r", "s", "t", "u", "v", "w", "x", "y", "z",
   "A", "B", "C", "D", "E", "F", "G", "H", "I", "J", "K", "L", "M",
   "N", "O", "P", "Q", "R", "S", "T", "U", "V", "W", "X", "Y", "Z"}

IsWordChar(c) == c \in WordChars

WordAt(text, i) == i \in 1..Len(text) /\ IsWordChar(text[i])

\* \b between the characters i - 1 and i of the text
Boundary(text, i) == WordAt(text, i - 1) # WordAt(text, i)

\* one character of the pattern against one of the text: the version is put
\* into the pattern as it is, so its dots match any character
AtomMatches(atom, c) == IF atom = "." THEN c # "\n" ELSE atom = c

MatchesAt(pattern, text, i) ==
  /\ i + Len(pattern) - 1 <= Len(text)
  /\ \A k \in 1..Len(pattern) : AtomMatches(pattern[k], text[i + k - 1])

\* new RegExp(`\\b${version}\\b`).test(stdout)
RegexTest(version, stdout) ==
  \E i \in 1..Len(stdout) :
    /\ Boundary(stdout, i)
    /\ MatchesAt(version, stdout, i)
    /\ Boundary(stdout, i + Len(version))

\* isVersionStillListed(version): false when "nvm list" fails
isVersionStillListed(version, ok, stdout) ==
  IF ok THEN RegexTest(version, stdout) ELSE FALSE

InitListing ==
  /\ cmd = "listed"
  /\ pc = "start"
  /\ listing \in Listings
  /\ query \in QueryVersions
  /\ argv = NoFlags
  /\ entries = <<>>
  /\ ledger = [exists |-> FALSE, contents |-> <<>>]
  /\ nvmList = Versions
  /\ dirs = {}
  /\ active = 1
  /\ globals = [v \in Versions |-> NoGlobals]
  /\ registry = NoGlobals
  /\ availLts = NoVersion
  /\ IdleLocals

\* one call of isVersionStillListed(query)
ListingCheck ==
  /\ cmd = "listed" /\ pc = "start"
  /\ \E ok \in BOOLEAN :
       Log(Ev("listed", NoPkg, NoVersion,
              isVersionStillListed(query, ok, listing),
              IF ok THEN "ok" ELSE "failed", 0))
  /\ pc' = "done"
  /\ UNCHANGED <<worldVars, inputVars, localVars>>

NextListing == ListingCheck

SpecListing == InitListing /\ [][NextListing]_vars

\* the version is one of the blank-separated tokens of the text
StandaloneToken(version, text) ==
  \E t \in Range(Split(text, " ")) : t = version

\* C17: when "nvm list" gave its output, isVersionStillListed(v) is true
\* exactly when v is one of the tokens of the output.
C17_ListedIffToken ==
  (cmd = "listed" /\ pc = "done" /\ trace[1].ans = "ok") =>
    (trace[1].ok <=> StandaloneToken(query, listing))

\* the ledger file is missing, or each of its package lines names only npm
LedgerNamesNothing(file) ==
  \/ ~file.exists
  \/ LET lines == Split(file.contents, "\n")
     IN \A i \in 1..Len(lines) :
          \/ SkipLine(lines[i])
          \/ \A tok \in Range(Split(lines[i], ",")) : Trim(tok) \in {<<>>, npm}

\* install-lts made no query, install or switch
NoExternalCommand ==
  /\ latestLts = NoVersion
  /\ installedVersions = <<>>
  /\ missingPackages = <<>>
  /\ packagesToInstall = <<>>
  /\ \A i \in 1..Len(trace) : trace[i].kind = "no-packages"
  /\ System = world0

\* C18: with the ledger file missing or naming no package but npm,
\* parsePackageList yields the empty list and install-lts ends at once, with
\* no latest-stable query, Node install, switch or package install.
C18_EmptyLedgerEndsEarly ==
  (cmd = "install-lts" /\ LedgerNamesNothing(ledger)) =>
    /\ parsePackageList(ledger) = <<>>
    /\ pc \in {"start", "done"}
    /\ NoExternalCommand

\* install-lts has ended on a ledger file that exists and names only npm
C18_Witness ==
  /\ cmd = "install-lts" /\ pc = "done"
  /\ ledger.exists /\ Includes(ledger.contents, npm)
  /\ LedgerNamesNothing(ledger)
  /\ trace = <<Ev("no-packages", NoPkg, NoVersion, TRUE, "", 0)>>

\* the first prompts are over and the migration goes on
PromptsAnswered == \E i \in 1..Len(trace) : trace[i].kind = "answers"

\* the checkbox of packages is or was on the screen
CheckboxShown ==
  \/ pc = "select"
  \/ \E i \in 1..Len(trace) : trace[i].kind \in {"selected", "none-selected"}

\* the package loop has ended after installing every gathered package
AllGatheredInstalled ==
  (\E i \in 1..Len(trace) : trace[i].kind = "complete") =>
    \A k \in 1..Len(packageMap) :
      \E i \in 1..Len(trace) :
        trace[i].kind = "install" /\ trace[i].pkg = packageMap[k][1]

\* C19: migrate run with --yes takes "install all" from the flag, not from
\* the confirmation, never shows the package checkbox, and hands every
\* gathered package to installGlobalPackage.
C19_YesSkipsPrompts ==
  (cmd = "migrate" /\ argv.yes) =>
    /\ PromptsAnswered => installAll
    /\ ~CheckboxShown
    /\ AllGatheredInstalled

\* C20: every package install of migrate runs against the target version.
C20_InstallsUnderTarget ==
  cmd = "migrate" =>
    \A i \in 1..Len(trace) :
      trace[i].kind = "install" => trace[i].ver = targetVersion

\* a step of the pre-check loop, which looks up every package of the ledger
PrecheckStep == cmd = "install-lts" /\ pc = "precheck" /\ pc' # "precheck"

PrecheckUnderTarget == PrecheckStep => active = latestLts

\* C21: install-lts classifies the packages from the versions installed
\* under the latest stable version: the pre-check lookups are made while
\* that version is the one in use.
C21_ClassifiedUnderTarget == [][PrecheckUnderTarget]_vars

\* ---------------------------------------------------- the cleanup loop
\* uninstallNodeVersion was called for the version at position j
UninstallCalledAt(j) ==
  \E m \in 1..Len(trace) :
    /\ trace[m].kind = "uninstall" /\ trace[m].at = j
    /\ trace[m].ver = toUninstall[j]

\* the prompt at position i of the history was the last one
LastPrompt(i) == \A m \in (i + 1)..Len(trace) : trace[m].kind # "prompt"

FailedUninstalls ==
  {i \in 1..Len(trace) : trace[i].kind = "uninstall" /\ ~trace[i].ok}

\* C22: in cleanup, "Yes to all remaining" at version k has every version
\* from k on uninstalled with no further prompt, "Skip all remaining" at
\* version k has none from k on uninstalled with no further prompt, and a
\* failed uninstall leaves the loop running to its last version.
C22_CleanupStickyChoices ==
  cmd = "cleanup" =>
    /\ \A i \in 1..Len(trace) :
         (trace[i].kind = "prompt" /\ trace[i].ans = "y-all") =>
           /\ \A j \in trace[i].at..(idx - 1) : UninstallCalledAt(j)
           /\ LastPrompt(i)
    /\ \A i \in 1..Len(trace) :
         (trace[i].kind = "prompt" /\ trace[i].ans = "skip-all") =>
           /\ \A j \in trace[i].at..(idx - 1) : ~UninstallCalledAt(j)
           /\ LastPrompt(i)
    /\ \A i \in FailedUninstalls :
         /\ pc \in {"loop", "done"}
         /\ pc = "loop" => ENABLED (CleanupLoopStep \/ CleanupComplete)
         /\ pc = "done" =>
              /\ idx = Len(toUninstall) + 1
              /\ trace[Len(trace)].kind = "complete"

\* cleanup ended after "Yes to all remaining" at the first of two versions,
\* whose uninstall failed, and the uninstall of the second
C22_Witness ==
  /\ cmd = "cleanup" /\ pc = "done"
  /\ Len(toUninstall) = 2
  /\ \E i \in FailedUninstalls :
       /\ trace[i].at = 1
       /\ trace[i - 1].kind = "prompt" /\ trace[i - 1].ans = "y-all"
  /\ UninstallCalledAt(2)
  /\ Cardinality({m \in 1..Len(trace) : trace[m].kind = "prompt"}) = 1

\* ---------------------------------------------------------------- list-all
\* the text of --versions: absent, all, ALL, or version strings and commas
AllText == <<"a", "l", "l">>

\* the values of --versions: none, "all", "ALL", and lists of one or two of
\* the versions, named with or without a blank after the comma
VersionsFlags ==
  {<<>>, AllText, <<"A", "L", "L">>}
  \cup {VersionText(v) : v \in Versions \cup {NewVersion}}
  \cup {VersionText(v) \o <<",", " ">> \o VersionText(w) :
          v \in Versions, w \in Versions \cup {NewVersion}}

\* String.prototype.toLowerCase on the letters of the flag
LowerChar(c) == CASE c = "A" -> "a" [] c = "L" -> "l" [] OTHER -> c

ToLowerCase(s) == [i \in 1..Len(s) |-> LowerChar(s[i])]

\* program.opts() of the root program, which declares neither --json nor
\* --versions: both values are undefined
ProgramOpts(flags) == [json |-> Null, versions |-> Null]

\* program.opts().versions || null
VersionsFlag(flags) ==
  LET opts == ProgramOpts(flags)
  IN IF opts.versions = Null \/ opts.versions = <<>> THEN Null
     ELSE opts.versions

\* versionsFlag.split(',').map(v => v.trim())
RequestedVersions(flag) ==
  LET parts == Split(flag, ",")
  IN [i \in 1..Len(parts) |-> Trim(parts[i])]

\* the installed versions as nvm prints them
InstalledTexts(installed) == {VersionText(v) : v \in Range(installed)}

\* requestedVersions.filter(v => !allInstalledVersions.includes(v))
InvalidVersions(requested, installed) ==
  LET Invalid(v) == v \notin InstalledTexts(installed)
  IN SelectSeq(requested, Invalid)

\* the version a version string names
VersionOfText(text) ==
  CHOOSE v \in Versions \cup {NewVersion} : VersionText(v) = text

\* does the flag ask for given versions, not for all of them
NamesVersions(flag) == flag # Null /\ ToLowerCase(flag) # AllText

\* versionsToUse
VersionsToUse(flags, installed) ==
  LET flag == VersionsFlag(flags)
  IN IF NamesVersions(flag)
     THEN [i \in 1..Len(RequestedVersions(flag)) |->
             VersionOfText(RequestedVersions(flag)[i])]
     ELSE installed

\* the ledger files list-all and extract find: none, or one of an earlier run
OldLedgers ==
  {[exists |-> FALSE, contents |-> <<>>],
   [exists |-> TRUE, contents |-> EntryText(1, <<pa>>)]}

\* the worlds list-all and extract run in: packages a and ab
InitPackagesWorld ==
  /\ nvmList \in SUBSET Versions \ {{}}
  /\ active \in nvmList
  /\ dirs = {<<"v", v>> : v \in nvmList}
  /\ availLts = NoVersion
  /\ registry = NoGlobals
  /\ globals \in [Versions -> {g \in [WorldPkgs -> {Null, "1.0.0"}] :
                                 g[ps] = Null}]
  /\ \A v \in Versions : v \notin nvmList => globals[v] = NoGlobals
  /\ ledger \in OldLedgers
  /\ entries = <<>>
  /\ NoListing

InitListAll ==
  /\ cmd = "list-all"
  /\ pc = "start"
  /\ argv \in [to : {NoVersion}, from : {NoVersion}, yes : {FALSE},
              versions : VersionsFlags]
  /\ InitPackagesWorld
  /\ IdleLocals

\* allInstalledVersions, the --versions flag and its validation
ListAllStart ==
  /\ cmd = "list-all" /\ pc = "start"
  /\ \E ok \in BOOLEAN : installedVersions' = getInstalledNodeVersions(ok)
  /\ LET flag == VersionsFlag(argv)
         invalid == IF NamesVersions(flag)
                    THEN InvalidVersions(RequestedVersions(flag),
                                         installedVersions')
                    ELSE <<>>
     IN IF Len(installedVersions') = 0
        THEN /\ pc' = "done"
             /\ Log(Ev("no-versions", NoPkg, NoVersion, FALSE, "", 0))
        ELSE IF Len(invalid) > 0
        THEN /\ pc' = "exited"
             /\ Log(Ev("exit", Join(invalid, <<",", " ">>), NoVersion, FALSE,
                       "", 1))
        ELSE /\ pc' = "clear"
             /\ UNCHANGED trace
  /\ UNCHANGED <<worldVars, inputVars, allPackages, latestLts,
                 alreadyHasLatest, missingPackages, packagesToInstall, idx,
                 skipAll, installAll, cleanupVars, fixVars, migrateVars>>

\* fs.writeFileSync(OUTPUT_FILE, '')
ListAllClear ==
  /\ cmd = "list-all" /\ pc = "clear"
  /\ ledger' = ClearedFile
  /\ pc' = "loop"
  /\ UNCHANGED <<nvmList, dirs, active, globals, registry, availLts>>
  /\ UNCHANGED <<inputVars, localVars, trace>>

\* getGlobalPackages() while version is in use: its packages, [] on failure
getGlobalPackages(ok, version) ==
  IF ok THEN GlobalPackagesOf(version) ELSE <<>>

SkipVersionNever(switched) == FALSE

\* if (!switched) { ...; continue; }
SkipVersion(switched) == ~switched

\* one iteration of for (const version of versionsToUse)
ListAllLoopStep ==
  /\ cmd = "list-all" /\ pc = "loop"
  /\ idx <= Len(VersionsToUse(argv, installedVersions))
  /\ idx' = idx + 1
  /\ LET version == VersionsToUse(argv, installedVersions)[idx]
     IN \E switched \in SwitchOutcomes(version), listed \in BOOLEAN :
          LET switch == Ev("switch", NoPkg, version, switched, "", idx)
          IN /\ active' = IF switched THEN version ELSE active
             /\ IF SkipVersion(switched)
                THEN /\ Log(switch)
                     /\ UNCHANGED ledger
                ELSE LET packages == getGlobalPackages(listed, version)
                     IN /\ ledger' = AppendFile(ledger,
                                                EntryText(version, packages))
                        /\ trace' = trace \o
                             <<switch,
                               Ev("packages", NoPkg, version, listed, "", idx),
                               Ev("row", Join(packages, <<",", " ">>),
                                  version, TRUE, "", idx)>>
  /\ UNCHANGED <<pc, nvmList, dirs, globals, registry, availLts>>
  /\ UNCHANGED <<inputVars, allPackages, latestLts, installedVersions,
                 alreadyHasLatest, missingPackages, packagesToInstall,
                 skipAll, installAll, cleanupVars, fixVars, migrateVars>>

\* the table or the JSON of the results, "Listing done."
ListAllEnd ==
  /\ cmd = "list-all" /\ pc = "loop"
  /\ idx > Len(VersionsToUse(argv, installedVersions))
  /\ Log(Ev("complete", NoPkg, NoVersion, TRUE, "", 0))
  /\ pc' = "done"
  /\ UNCHANGED <<worldVars, inputVars, localVars>>

NextListAll ==
  ListAllStart \/ ListAllClear \/ ListAllLoopStep \/ ListAllEnd

SpecListAll == InitListAll /\ [][NextListAll]_vars

\* the positions of the version loop handled so far at which the switch
\* succeeded, in order
Activated ==
  LET Switched(k) ==
        \E m \in 1..Len(trace) :
          trace[m].kind = "switch" /\ trace[m].at = k /\ trace[m].ok
  IN SelectSeq([k \in 1..(idx - 1) |-> k], Switched)

\* the events of a kind, in order
EventsOfKind(kind) == LET Is(e) == e.kind = kind IN SelectSeq(trace, Is)

\* the header lines and the other non-empty lines of the ledger, in order
HeaderLines ==
  LET IsHeader(line) == StartsWith(line, HeaderPrefix)
  IN SelectSeq(Split(ledger.contents, "\n"), IsHeader)

PackageLines ==
  LET IsOther(line) == line # <<>> /\ ~StartsWith(line, HeaderPrefix)
  IN SelectSeq(Split(ledger.contents, "\n"), IsOther)

\* the version loop of list-all is running or has ended
ListAllLooping ==
  /\ cmd = "list-all"
  /\ pc = "loop" \/ (pc = "done" /\ Len(installedVersions) > 0)

\* C23: in list-all a version whose switch fails adds no header line, no
\* package line and no result row, the loop goes on to the last version, and
\* the ledger holds one header per activated version, in processing order.
C23_FailedSwitchSkipped ==
  ListAllLooping =>
    LET versionsToUse == VersionsToUse(argv, installedVersions)
        rows == EventsOfKind("row")
    IN /\ Len(HeaderLines) = Len(Activated)
       /\ \A i \in 1..Len(Activated) :
            /\ HeaderLines[i] =
                 HeaderPrefix \o <<" ">>
                 \o VersionText(versionsToUse[Activated[i]])
            /\ rows[i].at = Activated[i]
            /\ rows[i].ver = versionsToUse[Activated[i]]
       /\ Len(PackageLines) = Len(Activated)
       /\ Len(rows) = Len(Activated)
       /\ pc = "done" => idx = Len(versionsToUse) + 1

\* list-all ended after the switch to the first of two versions failed and
\* the second one was written with its package
C23_Witness ==
  /\ cmd = "list-all" /\ pc = "done"
  /\ Len(installedVersions) = 2
  /\ Activated = <<2>>
  /\ Len(HeaderLines) = 1
  /\ PackageLines = <<pa>>

\* the --versions flag given names a version that is not installed
NamesUninstalled ==
  /\ argv.versions # <<>>
  /\ ToLowerCase(argv.versions) # AllText
  /\ \E v \in Range(RequestedVersions(argv.versions)) :
       v \notin {VersionText(w) : w \in nvmList}

\* C24: list-all given a --versions list that names a version which is not
\* installed ends with exit code 1 once the installed versions are listed,
\* with the ledger file as it was and no switch made.
C24_InvalidVersionsExit ==
  (cmd = "list-all" /\ NamesUninstalled /\ Len(installedVersions) > 0) =>
    /\ pc = "exited"
    /\ trace = <<Ev("exit", trace[1].pkg, NoVersion, FALSE, "", 1)>>
    /\ ledger \in OldLedgers
    /\ active = world0.active

\* an event of the kind with the result, before position i of the history
Before(i, kind, ok) ==
  \E m \in 1..(i - 1) : trace[m].kind = kind /\ trace[m].ok = ok

Installs == {i \in 1..Len(trace) : trace[i].kind = "install"}

\* the switch to the latest stable version succeeded
SwitchedToLatest(i) ==
  \E m \in 1..(i - 1) :
    trace[m].kind = "switch" /\ trace[m].ok /\ trace[m].ver = latestLts

\* C25: install-lts calls installGlobalPackage only after the confirmation
\* was accepted, with the latest stable version installed (found installed,
\* or installed by this run) and after the switch to it succeeded; a
\* declined confirmation, a failed Node install or a failed switch ends the
\* command with no package install.
C25_InstallsGuarded ==
  cmd = "install-lts" =>
    /\ \A i \in Installs :
         /\ Before(i, "confirm", TRUE)
         /\ alreadyHasLatest \/ Before(i, "installNode", TRUE)
         /\ latestLts \in nvmList
         /\ SwitchedToLatest(i)
    /\ (\/ Before(Len(trace) + 1, "confirm", FALSE)
        \/ Before(Len(trace) + 1, "installNode", FALSE)
        \/ Before(Len(trace) + 1, "switch", FALSE)) =>
         pc = "done" /\ Installs = {} /\ globals = world0.globals

\* a package was installed after the latest stable version was installed by
\* the run
C25_Witness ==
  /\ cmd = "install-lts"
  /\ ~alreadyHasLatest
  /\ \E i \in Installs : trace[i].ok /\ Before(i, "installNode", TRUE)

\* ------------------------------------------------ the forced removal
\* the calls of fs.rmSync made for the version
Removals(version) == EventsOf(version, {"rm"})

\* every fs.rmSync call follows the accepted prompt for the same version,
\* no version has two of them, and none follows a declined prompt
RemovalsPrompted ==
  /\ \A i \in 1..Len(trace) :
       trace[i].kind = "rm" =>
         /\ i > 1
         /\ trace[i - 1].kind = "prompt"
         /\ trace[i - 1].ver = trace[i].ver
         /\ trace[i - 1].ok
  /\ \A v \in Versions : Cardinality(Removals(v)) <= 1
  /\ \A i \in 1..Len(trace) :
       (trace[i].kind = "prompt" /\ ~trace[i].ok) =>
         Removals(trace[i].ver) = {}

\* the step of the manual-deletion prompt: the directory that goes is the
\* one of the prompted version, v<version> when that exists, and it goes
\* only on the answer yes
PromptStepDeletes ==
  (cmd = "fix-failed" /\ pc = "prompt") =>
    LET version == installedVersions[idx]
        answer == trace'[Len(trace) + 1]
        gone == dirs \ dirs'
    IN /\ answer.kind = "prompt" /\ answer.ver = version
       /\ dirs' \subseteq dirs
       /\ Cardinality(gone) <= 1
       /\ gone # {} => answer.ok
       /\ gone \subseteq
            (IF <<"v", version>> \in dirs THEN {<<"v", version>>}
             ELSE {<<"", version>>})
       /\ ~answer.ok => dirs' = dirs /\ nvmList' = nvmList

\* C26: fix-failed deletes a directory only after the prompt for that
\* version was answered yes, deletes at most one directory per version, the
\* one named v<version> when it exists and else the one named <version>,
\* and leaves the directories as they are when the prompt is declined.
C26_DeletionAfterYes ==
  /\ [](cmd = "fix-failed" => RemovalsPrompted)
  /\ [][PromptStepDeletes]_vars

\* the directory <version> of a version without a v<version> directory was
\* deleted, and another version's prompt was declined
C26_Witness ==
  /\ cmd = "fix-failed"
  /\ \E v \in Versions :
       \E i \in Removals(v) :
         /\ trace[i].ok /\ trace[i].ans = ""
         /\ DirsOf(v) \cap dirs = {}
  /\ \E i \in 1..Len(trace) : trace[i].kind = "prompt" /\ ~trace[i].ok

\* C27: fix-failed reports a version as uninstalled only when a listing
\* obtained after the uninstall did not contain it: a version so reported is
\* not among the versions nvm lists.
C27_ReportedMeansUnlisted ==
  cmd = "fix-failed" =>
    \A i \in 1..Len(trace) :
      trace[i].kind = "reported" => trace[i].ver \notin nvmList

\* the names handed to installGlobalPackage so far, in order
InstalledNames ==
  LET installs == EventsOfKind("install")
  IN [i \in 1..Len(installs) |-> installs[i].pkg]

\* C28: when migrate has run its package loop over a checkbox selection,
\* the names passed to installGlobalPackage are the names the user ticked,
\* scoped names included.
C28_InstallsAreTicked ==
  (cmd = "migrate" /\ pc = "done") =>
    \A i \in 1..Len(trace) :
      (trace[i].kind = "selected" /\ trace[Len(trace)].kind = "complete") =>
        Join(InstalledNames, <<",">>) = trace[i].pkg

\* the version packageMap records for the package
RecordedVersion(pkg) ==
  packageMap[CHOOSE k \in 1..Len(packageMap) : packageMap[k][1] = pkg][2]

\* a successful install of the package loop of migrate leaves the package
\* at the version packageMap records for it
InstallAtRecorded ==
  (cmd = "migrate" /\ pc = "loop" /\ idx <= Len(allPackages)) =>
    LET packageName == allPackages[idx]
    IN (/\ packageName \in Range(Keys(packageMap))
        /\ active \in Versions
        /\ trace'[Len(trace')].kind = "install"
        /\ trace'[Len(trace')].ok) =>
         globals'[active][packageName] = RecordedVersion(packageName)

\* C29: each install of migrate requests the package at the version that
\* packageMap records for it from the source version.
C29_InstallsRecordedVersion == [][InstallAtRecorded]_vars

\* ----------------------------------------------------------------- extract
InitExtract ==
  /\ cmd = "extract"
  /\ pc = "start"
  /\ argv = NoFlags
  /\ InitPackagesWorld
  /\ IdleLocals

\* nodeVersions
ExtractStart ==
  /\ cmd = "extract" /\ pc = "start"
  /\ \E ok \in BOOLEAN : installedVersions' = getInstalledNodeVersions(ok)
  /\ IF Len(installedVersions') = 0
     THEN /\ pc' = "done"
          /\ Log(Ev("no-versions", NoPkg, NoVersion, FALSE, "", 0))
     ELSE /\ pc' = "clear"
          /\ UNCHANGED trace
  /\ UNCHANGED <<worldVars, inputVars, allPackages, latestLts,
                 alreadyHasLatest, missingPackages, packagesToInstall, idx,
                 skipAll, installAll, cleanupVars, fixVars, migrateVars>>

\* fs.writeFileSync(OUTPUT_FILE, '')
ExtractClear ==
  /\ cmd = "extract" /\ pc = "clear"
  /\ ledger' = ClearedFile
  /\ pc' = "loop"
  /\ UNCHANGED <<nvmList, dirs, active, globals, registry, availLts>>
  /\ UNCHANGED <<inputVars, localVars, trace>>

\* `Node Version: ${version}\n`
ExtractHeader(version) ==
  HeaderPrefix \o <<" ">> \o VersionText(version) \o <<"\n">>

ExtractPackagesUnterminated(packages) ==
  IF Len(packages) = 0 THEN NoPackagesMarker
  ELSE Join(packages, <<",", " ">>)

\* '(No global packages installed)\n' or `${joinedPackages}\n`
ExtractPackages(packages) ==
  IF Len(packages) = 0 THEN NoPackagesMarker \o <<"\n">>
  ELSE Join(packages, <<",", " ">>) \o <<"\n">>

\* one iteration of for (const version of nodeVersions)
ExtractLoopStep ==
  /\ cmd = "extract" /\ pc = "loop"
  /\ idx <= Len(installedVersions)
  /\ idx' = idx + 1
  /\ LET version == installedVersions[idx]
     IN \E switched \in SwitchOutcomes(version), listed \in BOOLEAN :
          LET switch == Ev("switch", NoPkg, version, switched, "", idx)
          IN /\ active' = IF switched THEN version ELSE active
             /\ IF ~switched
                THEN /\ Log(switch)
                     /\ UNCHANGED ledger
                ELSE LET packages == getGlobalPackages(listed, version)
                         header == AppendFile(ledger, ExtractHeader(version))
                         line == AppendFile(header, ExtractPackages(packages))
                     IN /\ ledger' = AppendFile(line, <<"\n">>)
                        /\ Log2(switch,
                                Ev("packages", NoPkg, version, listed, "",
                                   idx))
  /\ UNCHANGED <<pc, nvmList, dirs, globals, registry, availLts>>
  /\ UNCHANGED <<inputVars, allPackages, latestLts, installedVersions,
                 alreadyHasLatest, missingPackages, packagesToInstall,
                 skipAll, installAll, cleanupVars, fixVars, migrateVars>>

\* "Step 1 complete: Extraction done."
ExtractEnd ==
  /\ cmd = "extract" /\ pc = "loop"
  /\ idx > Len(installedVersions)
  /\ Log(Ev("complete", NoPkg, NoVersion, TRUE, "", 0))
  /\ pc' = "done"
  /\ UNCHANGED <<worldVars, inputVars, localVars>>

NextExtract == ExtractStart \/ ExtractClear \/ ExtractLoopStep \/ ExtractEnd

\* extract and list-all, the two commands that write the ledger
SpecLedgerWriters ==
  (InitListAll \/ InitExtract) /\ [][NextListAll \/ NextExtract]_vars

\* the package query at position k of the version loop succeeded
ListedAt(k) ==
  \E m \in 1..Len(trace) :
    trace[m].kind = "packages" /\ trace[m].at = k /\ trace[m].ok

\* what the run obtained so far: per activated version, its packages
OutcomeEntries ==
  [i \in 1..Len(Activated) |->
     [version |-> installedVersions[Activated[i]],
      packages |-> IF ListedAt(Activated[i])
                   THEN GlobalPackagesOf(installedVersions[Activated[i]])
                   ELSE <<>>]]

\* the version loop of extract or of list-all is running or has ended
WriterLooping ==
  /\ cmd \in {"list-all", "extract"}
  /\ pc = "loop" \/ (pc = "done" /\ Len(installedVersions) > 0)

\* C30: extract and list-all leave the same ledger: after the same installed
\* versions and the same outcomes of the switches and package queries, the
\* file of either command is the text list-all writes for those outcomes.
C30_SameLedger ==
  WriterLooping =>
    /\ ledger.exists
    /\ ledger.contents = WriteLedger(OutcomeEntries)

\* extract ended with two versions written, one with its package and one
\* with the marker of no packages
C30_Witness ==
  /\ cmd = "extract" /\ pc = "done"
  /\ Len(Activated) = 2
  /\ Len(OutcomeEntries[1].packages) > 0
  /\ Len(OutcomeEntries[2].packages) = 0
  /\ Includes(ledger.contents, NoPackagesMarker)

====
